---- MODULE Spec2Model ----
(***************************************************************************)
(* Session manager (DerivWebSocketManager), bot execution engine           *)
(* (BotExecutor) and copy-trade service (CopyTradeService) of              *)
(* mrcharlohfx-backend as state machines.                                  *)
(*                                                                         *)
(* Node runs every callback to completion, so one action is one callback:  *)
(* a caller's request, a socket event (open, message, close), a reconnect  *)
(* timer, the liveness check, or the continuation of an awaited            *)
(* persistence call.  An `await` of a call that does no I/O (connect       *)
(* awaiting disconnect) only yields to microtasks; socket events and       *)
(* timers are macrotasks and cannot run in between, so such a callback is  *)
(* one action.                                                             *)
(*                                                                         *)
(* Time is counted in units of 60 s (the liveness timeout).                *)
(*                                                                         *)
(* A persistence call of the copy-trade service may reject, and so may the *)
(* create of a trade by the executor; a transport may fail to be created,  *)
(* report an error or refuse a write.  Left out: the other exceptions (a   *)
(* frame that is not JSON, the other persistence calls of the executor),   *)
(* the trading-hours window, the prices behind a strategy's answer (the    *)
(* answer is an input of each tick) and the statistics of users.           *)
(***************************************************************************)
EXTENDS Integers, Sequences, FiniteSets, TLC

\* ------------------------------------------------------------------ bounds
MaxSockets == 3        \* transports alive or referenced at the same time
MaxSends == 2          \* caller messages (send, subscribeTicks, unsubscribeTicks)
MaxConnects == 2       \* connect calls made by callers
MaxQueue == 3          \* outbound queue length at which pings stop being generated
MaxTimers == 2         \* reconnect timers pending at the same time
MaxAuto == 2           \* automatic reconnects per session lineage
MaxFrameKeys == 2      \* top-level keys of an inbound frame
MaxTicks == 22         \* tick frames delivered for one symbol
MaxTrades == 2         \* trade records created
MaxStarts == 2         \* startBot calls
MaxTasks == 2          \* callbacks of the executor awaiting persistence at the same time
MaxBuys == 1           \* buy confirmations received
MaxSettled == 2        \* buy confirmations received where trades settle one after another
MaxPushes == 4         \* ticks that arrive at a window whose entries are followed
Slack == 2             \* how far below its cap such a window or buffer starts
MaxRestartTicks == 42  \* tick frames delivered where a bot is started a second time
MaxCounted == 3        \* settlements counted into the aggregates of one bot
MaxCopyTasks == 2      \* callbacks of the copy-trade service awaiting persistence
MaxFollows == 3        \* follow requests
MaxCopyFailed == 1     \* persistence calls of the copy-trade service that are rejected

\* ------------------------------------------------------- program constants
maxReconnectAttempts == 5
HealthTimeout == 1     \* 60000 ms, in clock units of 60 s
TickWindowCap == 1000  \* entries kept per symbol
TickBufferCap == 100   \* ticks kept per bot context
MinIndicatorTicks == 20

Users == {"u1"}         \* the users who run bots and are followed (leaders)
Followers == {"f1", "f2", "f3"}
Accounts == Users \cup Followers
Tokens == {"tok"}
NoToken == ""          \* a user whose Deriv token is not set
Symbols == {"R_100"}
SockIds == 1..MaxSockets
Bots == {"b1", "b2"}
NoBot == ""            \* a deleted entry of the activeBots map
Signals == {"HOLD", "CALL"}

\* The bot documents: owner, symbol and risk ceilings (a ceiling of 0 and a
\* ceiling that is not set are both falsy).
BotConfig == [b \in Bots |-> [userId |-> "u1", symbol |-> "R_100", stake |-> 10,
                              maxDailyLoss |-> 0, maxConsecutiveLosses |-> 2]]

\* The User documents of the followers before they follow anyone: the balance
\* of each, copy trading disabled.
Balance == [f \in Followers |-> IF f = "f3" THEN 5 ELSE 1000]
NewUser(f) == [enabled |-> FALSE, following |-> {}, balance |-> Balance[f],
               investmentPerTrade |-> 0, riskPercentage |-> 0, maxDailyLoss |-> 0]

\* The top-level keys handleMessage looks at, in the order it tests them.
KeyOrder == <<"authorize", "balance", "portfolio", "statement", "tick",
              "proposal", "buy", "proposal_open_contract", "error", "ping">>
Keys == {KeyOrder[i] : i \in 1..Len(KeyOrder)}

VARIABLES
    connections,        \* userId -> connectionData (a function on the users present)
    reconnectAttempts,  \* userId -> attempts (a function on the users present)
    sockets,            \* socket id -> the WebSocket objects: user, token, readyState and
                        \*   what the venue was asked on it (authorize requests not yet
                        \*   answered, symbols whose ticks were requested, bots and
                        \*   followers for which a proposal was requested) and
                        \*   whether it answered with an authorize response
    timers,             \* userId -> pending reconnect timers (setTimeout callbacks)
    hung,               \* a callback never returned: the event loop is blocked
    raised,             \* an exception left the last callback of the session manager
    events,             \* events emitted by the last callback, in order
    out,                \* userId -> messages written to the transport by the last callback
    via,                \* the socket whose frame the last callback handled, else 0
    \* history
    nextId,             \* caller messages handed to send so far
    delivered,          \* ids of caller messages written to a transport, in order
    callerConnects,     \* connect calls made by callers so far
    autoReconnects,     \* userId -> reconnects made by timers since the caller's connect
    gaveUp,             \* userId -> give-up events since the caller's connect
    subsAtClose,        \* userId -> subscription set when its authenticated session's
                        \*           transport closed unexpectedly,
                        \*           kept up with the caller's later (un)subscribe calls
    carry,              \* userId -> caller messages queued when a timer replaced the session
    \* the bot execution engine
    activeBots,         \* botId -> execution data (a function on the bots present)
    botOrder,           \* the entries of the activeBots map in insertion order
    tickData,           \* symbol -> length of the tick history
    performance,        \* botId -> the aggregates of the Bot document: trades counted,
                        \*   profit and loss summed
    trades,             \* the Trade collection: trade id -> record
    tasks,              \* callbacks of the executor awaiting a persistence call
    starts,             \* startBot calls so far
    buys,               \* buy confirmations received so far (the venue's contract ids)
    \* the copy-trade service and the User collection
    followers,          \* leaderId -> the follower set, in insertion order
    dailyLoss,          \* followerId -> daily loss amount (a function on those present)
    userDocs,           \* the User documents of the followers
    copyTrades,         \* the Trade records with metadata.isCopyTrade: trade id -> record
    copyTasks,          \* callbacks of the service awaiting a persistence call
    listeners,          \* copy trades whose contract_update listener is attached
    thrown,             \* an exception left a listener of the service
    \* history
    follows,            \* follow requests so far
    copyFailed,         \* persistence calls of the service that were rejected so far
    copyLoss,           \* followerId -> losses the venue reported for the contracts of
                        \*   the follower's copy trades since the last resetDailyLoss
    \* the entries behind the lengths tickData and tickBuffer, followed where
    \* the eviction is examined (SpecWindow) and empty elsewhere
    tickHistory,        \* symbol -> the ticks of the shared window, oldest first
    bufferOf            \* botId -> the ticks of the context's buffer, oldest first

smVars == <<connections, reconnectAttempts, sockets, timers, hung, raised, events, out, via,
            nextId, delivered, callerConnects, autoReconnects, gaveUp, subsAtClose, carry,
            tickHistory, bufferOf>>

botVars == <<activeBots, botOrder, tickData, performance, trades, tasks, starts, buys>>

copyVars == <<followers, dailyLoss, userDocs, copyTrades, copyTasks, listeners, thrown,
              follows, copyFailed, copyLoss>>

vars == <<smVars, botVars, copyVars>>

\* Timestamps are kept relative to the current time: Date.now() is 0 and a
\* lastPing of -2 lies 120 s back.  Nothing reads a timestamp older than the
\* timeout otherwise than as "too old", so older ones are kept at that age.
Now == 0
Older(t) == IF Now - t > HealthTimeout THEN t ELSE t - 1

\* ----------------------------------------------------------------- helpers
Has(f, k) == k \in DOMAIN f
Put(f, k, v) == [x \in (DOMAIN f) \cup {k} |-> IF x = k THEN v ELSE f[x]]
Del(f, k) == [x \in (DOMAIN f) \ {k} |-> f[x]]
EmptyMap == [x \in {} |-> 0]

NoPerformance == [totalTrades |-> 0, totalProfit |-> 0, totalLoss |-> 0]

FreeSock == [user |-> "", token |-> "", state |-> "FREE", authReq |-> 0, ticksReq |-> {},
             propReq |-> {}, authorized |-> FALSE]

Msg(t, a, i) == [type |-> t, arg |-> a, id |-> i]

\* `message.authorize` is truthy: an authorize message with a non-empty token.
HasAuthorize(msg) == msg.type = "authorize" /\ msg.arg # ""

RECURSIVE TrackedIds(_)
TrackedIds(s) ==
    IF s = <<>> THEN <<>>
    ELSE (IF Head(s).id > 0 THEN <<Head(s).id>> ELSE <<>>) \o TrackedIds(Tail(s))

\* The manager's state while a callback runs.
Manager == [connections |-> connections, reconnectAttempts |-> reconnectAttempts,
            sockets |-> sockets, timers |-> timers, hung |-> FALSE, raised |-> FALSE,
            events |-> <<>>, out |-> [u \in Accounts |-> <<>>], ret |-> TRUE]

\* An emit that also schedules a reconnect for the user of an api_error.
EmitAndRetry(m, t, u) ==
    [m EXCEPT !.events = Append(@, [type |-> t, userId |-> u]),
              !.timers[u] = @ + (IF t = "api_error" THEN 1 ELSE 0)]

Emit(m, t, u) == [m EXCEPT !.events = Append(@, [type |-> t, userId |-> u])]

\* A closed socket that no session refers to is gone: its id can be used again.
Collect(socks, conns) ==
    [w \in SockIds |->
        IF socks[w].state = "CLOSED" /\ ~\E u \in DOMAIN conns : conns[u].ws = w
        THEN FreeSock ELSE socks[w]]

\* ------------------------------------------------------------ send (232-259)
send(m, u, msg) ==
    IF ~Has(m.connections, u) THEN [m EXCEPT !.ret = FALSE]
    ELSE LET c == m.connections[u] IN
        IF ~c.isAuthenticated /\ ~HasAuthorize(msg)
        THEN [m EXCEPT !.connections[u].messageQueue = Append(@, msg), !.ret = FALSE]
        ELSE IF m.sockets[c.ws].state = "OPEN"
        THEN [m EXCEPT !.out[u] = Append(@, msg),
                       !.sockets[c.ws].authReq = @ + (IF msg.type = "authorize" THEN 1 ELSE 0),
                       !.sockets[c.ws].ticksReq = @ \cup (IF msg.type = "ticks" THEN {msg.arg} ELSE {}),
                       !.sockets[c.ws].propReq = @ \cup (IF msg.type = "proposal" THEN {msg.arg} ELSE {}),
                       !.ret = TRUE]
        ELSE [m EXCEPT !.connections[u].messageQueue = Append(@, msg), !.ret = FALSE]

\* ------------------------------------------- processMessageQueue (262-270)
\* The while loop.  `fuel` counts the messages the loop may still take without
\* writing one: when it has re-queued every message of the queue the loop is
\* back where it started and never ends.
RECURSIVE flushLoop(_, _, _)
flushLoop(m, u, fuel) ==
    IF m.connections[u].messageQueue = <<>> THEN m
    ELSE IF fuel = 0 THEN [m EXCEPT !.hung = TRUE]
    ELSE LET q == m.connections[u].messageQueue
             m1 == send([m EXCEPT !.connections[u].messageQueue = Tail(q)], u, Head(q))
         IN flushLoop(m1, u, IF m1.ret THEN Len(m1.connections[u].messageQueue)
                                       ELSE fuel - 1)

processMessageQueue(m, u) ==
    IF ~Has(m.connections, u) \/ ~m.connections[u].isAuthenticated THEN m
    ELSE flushLoop(m, u, Len(m.connections[u].messageQueue))

\* ---------------------------------------- subscribeToInitialData (149-158)
subscribeToInitialData(m, u) ==
    send(send(send(m, u, Msg("balance", "", 0)), u, Msg("portfolio", "", 0)),
         u, Msg("statement", "", 0))

\* ----------------------------------------------------- authenticate (68-73)
authenticate(m, u, tok) == send(m, u, Msg("authorize", tok, 0))

\* --------------------------------------------------- handleMessage (76-146)
EventOf(k) ==
    CASE k = "authorize" -> "authenticated"
      [] k = "proposal_open_contract" -> "contract_update"
      [] k = "error" -> "api_error"
      [] OTHER -> k

\* The emits of lines 96-135, one per key present, in the order of the tests.
RECURSIVE emitKeys(_, _, _, _)
emitKeys(m, u, frame, i) ==
    IF i > Len(KeyOrder) THEN m
    ELSE LET k == KeyOrder[i] IN
        emitKeys(IF k \in frame /\ k \notin {"authorize", "ping"}
                 THEN Emit(m, EventOf(k), u) ELSE m, u, frame, i + 1)

handleMessage(m, u, frame) ==
    IF ~Has(m.connections, u) THEN m
    ELSE LET
        m1 == IF "authorize" \in frame
              THEN processMessageQueue(
                       Emit([m EXCEPT !.connections[u].isAuthenticated = TRUE],
                            "authenticated", u), u)
              ELSE m
    IN  IF m1.hung THEN m1
        ELSE LET
            m2 == IF "authorize" \in frame THEN subscribeToInitialData(m1, u) ELSE m1
            m3 == emitKeys(m2, u, frame, 1)
        IN  IF "ping" \in frame
            THEN [send(m3, u, Msg("ping", "", 0)) EXCEPT !.connections[u].lastPing = Now]
            ELSE m3

\* ------------------------------------------------------ disconnect (295-311)
disconnect(m, u) ==
    IF ~Has(m.connections, u) THEN m
    ELSE LET w == m.connections[u].ws IN
        [m EXCEPT !.sockets[w].state = IF @ = "OPEN" THEN "CLOSING" ELSE @,
                  !.connections = Del(@, u),
                  !.reconnectAttempts = Del(@, u)]

\* --------------------------------------------------------- connect (16-65)
NewSock(m) == CHOOSE w \in SockIds :
    /\ Collect(m.sockets, m.connections)[w].state = "FREE"
    /\ \A v \in SockIds : Collect(m.sockets, m.connections)[v].state = "FREE" => w <= v

CanConnect(m, u) ==
    \E w \in SockIds : Collect(disconnect(m, u).sockets, disconnect(m, u).connections)[w].state = "FREE"

connect(m, u, tok) ==
    LET m1 == disconnect(m, u)
        w == NewSock(m1)
    IN  [m1 EXCEPT !.sockets = [Collect(m1.sockets, m1.connections) EXCEPT
                                  ![w] = [user |-> u, token |-> tok,
                                          state |-> "CONNECTING", authReq |-> 0,
                                          ticksReq |-> {}, propReq |-> {},
                                          authorized |-> FALSE]],
                   !.connections = Put(@, u, [ws |-> w, token |-> tok,
                                              isAuthenticated |-> FALSE,
                                              subscriptions |-> {},
                                              messageQueue |-> <<>>,
                                              lastPing |-> Now]),
                   !.reconnectAttempts = Put(@, u, 0)]

\* connect when `new WebSocket` throws (24): the prior session is gone by
\* then, and the catch (61-64) logs the exception and throws it again.
connectFails(m, u) == [disconnect(m, u) EXCEPT !.raised = TRUE, !.ret = FALSE]

\* ws.on('error') (46-49) emits 'error', for which nothing ever registers a
\* listener: an EventEmitter throws the error of such an emit.
socketError(m, u) == [m EXCEPT !.raised = TRUE]

\* send when the write throws (246-253): the catch logs and returns false; the
\* message is neither written nor queued.
sendFails(m, u, msg) == [m EXCEPT !.ret = FALSE]

\* ------------------------------------------------ handleDisconnect (273-292)
Attempts(m, u) == IF Has(m.reconnectAttempts, u) THEN m.reconnectAttempts[u] ELSE 0

handleDisconnect(m, u) ==
    IF Attempts(m, u) < maxReconnectAttempts
    THEN [m EXCEPT !.reconnectAttempts = Put(@, u, Attempts(m, u) + 1),
                   !.timers[u] = @ + 1]
    ELSE [Emit(m, "max_reconnect_failed", u) EXCEPT
                   !.connections = Del(@, u),
                   !.reconnectAttempts = Del(@, u)]

\* The setTimeout callback of lines 280-285.
TimerReconnects(m, u) == Has(m.connections, u) /\ m.connections[u].token # ""

\* ----------------------------------------------------- isConnected (314-319)
isConnected(m, u) ==
    /\ Has(m.connections, u)
    /\ m.sockets[m.connections[u].ws].state = "OPEN"
    /\ m.connections[u].isAuthenticated

\* ----------------------------------------------------- healthCheck (341-353)
Stale(c) == Now - c.lastPing > HealthTimeout

healthCheckOne(m, u) ==
    IF Stale(m.connections[u]) THEN handleDisconnect(m, u)
    ELSE IF m.sockets[m.connections[u].ws].state = "OPEN"
    THEN send(m, u, Msg("ping", "", 0))
    ELSE m

RECURSIVE healthCheckLoop(_, _)
healthCheckLoop(m, todo) ==
    IF todo = {} THEN m
    ELSE LET u == CHOOSE x \in todo : TRUE
         IN healthCheckLoop(healthCheckOne(m, u), todo \ {u})

healthCheck(m) == healthCheckLoop(m, DOMAIN m.connections)

\* ------------------------------------------- subscribeTicks (161-190)
subscribeTicks(m, u, sym, i) ==
    IF ~Has(m.connections, u) THEN m
    ELSE [send(m, u, Msg("ticks", sym, i)) EXCEPT
              !.connections[u].subscriptions = @ \cup {sym}]

unsubscribeTicks(m, u, sym, i) ==
    IF ~Has(m.connections, u) THEN m
    ELSE [send(m, u, Msg("forget", sym, i)) EXCEPT
              !.connections[u].subscriptions = @ \ {sym}]

\* ------------------------------------------------------------------ actions
RECURSIVE AllOut(_, _)
AllOut(m, todo) ==
    IF todo = {} THEN <<>>
    ELSE LET u == CHOOSE x \in todo : TRUE IN m.out[u] \o AllOut(m, todo \ {u})

GaveUpIn(m, u) == \E i \in 1..Len(m.events) :
    m.events[i] = [type |-> "max_reconnect_failed", userId |-> u]

\* The session manager's state a callback leaves behind; w is the socket
\* whose frame the callback handled, else 0.
Leave(m, w) ==
    /\ via' = w
    /\ connections' = m.connections
    /\ reconnectAttempts' = m.reconnectAttempts
    /\ sockets' = Collect(m.sockets, m.connections)
    /\ timers' = m.timers
    /\ hung' = m.hung
    /\ raised' = m.raised
    /\ UNCHANGED <<tickHistory, bufferOf>>
    /\ events' = m.events
    /\ out' = m.out
    /\ delivered' = delivered \o TrackedIds(AllOut(m, Accounts))

\* A callback of the session manager that no listener of the executor follows.
Commit(m) ==
    /\ Leave(m, 0)
    /\ gaveUp' = [u \in Accounts |-> gaveUp[u] + (IF GaveUpIn(m, u) THEN 1 ELSE 0)]
    /\ UNCHANGED <<botVars, copyVars>>

\* The same for a frame that arrived on socket w.
CommitFrame(m, w) ==
    /\ Leave(m, w)
    /\ gaveUp' = gaveUp
    /\ UNCHANGED <<botVars, copyVars>>

\* The same for a caller's connect, which starts a new session lineage.
CommitConnect(m, u) ==
    /\ Leave(m, 0)
    /\ gaveUp' = [gaveUp EXCEPT ![u] = 0]
    /\ UNCHANGED <<botVars, copyVars>>

\* handleDisconnect(u) would set a timer, and fewer than maxTimers are pending.
MaySchedule(u, maxTimers) ==
    Attempts(Manager, u) < maxReconnectAttempts => timers[u] < maxTimers

\* A caller invokes connect(userId, token).
CallConnect(u, tok, maxConnects) ==
    /\ ~hung
    /\ callerConnects < maxConnects
    /\ CanConnect(Manager, u)
    /\ CommitConnect(connect(Manager, u, tok), u)
    /\ callerConnects' = callerConnects + 1
    /\ autoReconnects' = [autoReconnects EXCEPT ![u] = 0]
    /\ subsAtClose' = Del(subsAtClose, u)
    /\ carry' = Del(carry, u)
    /\ UNCHANGED <<nextId>>

\* A caller invokes disconnect(userId).
CallDisconnect(u) ==
    /\ ~hung
    /\ Commit(disconnect(Manager, u))
    /\ subsAtClose' = Del(subsAtClose, u)
    /\ carry' = Del(carry, u)
    /\ UNCHANGED <<nextId, callerConnects, autoReconnects>>

\* A caller invokes connect(userId, token) and the socket cannot be created.
CallConnectFails(u, maxConnects) ==
    /\ ~hung
    /\ callerConnects < maxConnects
    /\ Commit(connectFails(Manager, u))
    /\ callerConnects' = callerConnects + 1
    /\ subsAtClose' = Del(subsAtClose, u)
    /\ carry' = Del(carry, u)
    /\ UNCHANGED <<nextId, autoReconnects>>

\* The transport w reports an error (its close follows as an event of its own).
SocketError(w) ==
    /\ ~hung
    /\ sockets[w].state \in {"CONNECTING", "OPEN"}
    /\ Commit(socketError(Manager, sockets[w].user))
    /\ UNCHANGED <<nextId, callerConnects, autoReconnects, subsAtClose, carry>>

\* A caller invokes send on an authenticated session with an open transport
\* and the write throws.
CallSendFails(u, maxSends) ==
    /\ ~hung
    /\ nextId < maxSends
    /\ isConnected(Manager, u)
    /\ Commit(sendFails(Manager, u, Msg("app", "", nextId + 1)))
    /\ nextId' = nextId + 1
    /\ UNCHANGED <<callerConnects, autoReconnects, subsAtClose, carry>>

\* A caller invokes send(userId, message) with a message of its own.
CallSend(u, maxSends) ==
    /\ ~hung
    /\ nextId < maxSends
    /\ Commit(send(Manager, u, Msg("app", "", nextId + 1)))
    /\ nextId' = nextId + 1
    /\ UNCHANGED <<callerConnects, autoReconnects, subsAtClose, carry>>

CallSubscribeTicks(u, sym, maxSends) ==
    /\ ~hung
    /\ nextId < maxSends
    /\ Commit(subscribeTicks(Manager, u, sym, nextId + 1))
    /\ nextId' = nextId + 1
    /\ subsAtClose' = IF Has(subsAtClose, u) /\ Has(connections, u)
                      THEN [subsAtClose EXCEPT ![u] = @ \cup {sym}] ELSE subsAtClose
    /\ UNCHANGED <<callerConnects, autoReconnects, carry>>

CallUnsubscribeTicks(u, sym, maxSends) ==
    /\ ~hung
    /\ nextId < maxSends
    /\ Commit(unsubscribeTicks(Manager, u, sym, nextId + 1))
    /\ nextId' = nextId + 1
    /\ subsAtClose' = IF Has(subsAtClose, u) /\ Has(connections, u)
                      THEN [subsAtClose EXCEPT ![u] = @ \ {sym}] ELSE subsAtClose
    /\ UNCHANGED <<callerConnects, autoReconnects, carry>>

\* ws.on('open') (37-40): the transport is established.
SocketOpen(w) ==
    /\ ~hung
    /\ sockets[w].state = "CONNECTING"
    /\ Commit(authenticate([Manager EXCEPT !.sockets[w].state = "OPEN"],
                           sockets[w].user, sockets[w].token))
    /\ UNCHANGED <<nextId, callerConnects, autoReconnects, subsAtClose, carry>>

\* ws.on('close') (51-54): the transport is gone, whoever closed it.
SocketClose(w, maxTimers) ==
    /\ ~hung
    /\ sockets[w].state \in {"CONNECTING", "OPEN", "CLOSING"}
    /\ MaySchedule(sockets[w].user, maxTimers)
    /\ LET u == sockets[w].user
           m == handleDisconnect([Manager EXCEPT !.sockets[w].state = "CLOSED"], u)
       IN /\ Commit(m)
          /\ subsAtClose' =
                IF GaveUpIn(m, u) THEN Del(subsAtClose, u)
                ELSE IF Has(connections, u) /\ connections[u].ws = w
                        /\ connections[u].isAuthenticated
                THEN Put(subsAtClose, u, connections[u].subscriptions)
                ELSE subsAtClose
          /\ carry' = IF GaveUpIn(m, u) THEN Del(carry, u) ELSE carry
    /\ UNCHANGED <<nextId, callerConnects, autoReconnects>>

\* ws.on('message') (42-44): a frame of the venue arrives on transport w.  The
\* venue sends an authorize response only to an authorize request; an error
\* frame may answer one.
Deliver(w, frame) ==
    /\ ~hung
    /\ sockets[w].state \in {"OPEN", "CLOSING"}
    /\ "authorize" \in frame => sockets[w].authReq > 0
    /\ "ping" \in frame => \A u \in DOMAIN connections :
                              Len(connections[u].messageQueue) < MaxQueue
    /\ CommitFrame(handleMessage(
           [Manager EXCEPT !.sockets[w].authReq =
                IF @ > 0 /\ ("authorize" \in frame \/ "error" \in frame)
                THEN @ - 1 ELSE @,
                           !.sockets[w].authorized = @ \/ "authorize" \in frame],
           sockets[w].user, frame), w)
    /\ UNCHANGED <<nextId, callerConnects, autoReconnects, subsAtClose, carry>>

\* A reconnect timer set by handleDisconnect fires (280-285).
TimerFires(u, maxAuto) ==
    /\ ~hung
    /\ timers[u] > 0
    /\ LET m == [Manager EXCEPT !.timers[u] = @ - 1] IN
        IF TimerReconnects(m, u)
        THEN /\ CanConnect(m, u)
             /\ autoReconnects[u] < maxAuto
             /\ Commit(connect(m, u, m.connections[u].token))
             /\ autoReconnects' = [autoReconnects EXCEPT ![u] = @ + 1]
             /\ carry' = Put(carry, u, TrackedIds(connections[u].messageQueue))
        ELSE /\ Commit(m)
             /\ UNCHANGED <<autoReconnects, carry>>
    /\ UNCHANGED <<nextId, callerConnects, subsAtClose>>

\* The periodic liveness check.
HealthCheck(maxTimers) ==
    /\ ~hung
    /\ DOMAIN connections # {}
    /\ \A u \in DOMAIN connections :
         /\ Len(connections[u].messageQueue) < MaxQueue
         /\ Stale(connections[u]) => MaySchedule(u, maxTimers)
    /\ LET m == healthCheck(Manager)
       IN /\ Commit(m)
          /\ subsAtClose' = [u \in {x \in DOMAIN subsAtClose : ~GaveUpIn(m, x)} |->
                                 subsAtClose[u]]
          /\ carry' = [u \in {x \in DOMAIN carry : ~GaveUpIn(m, x)} |-> carry[u]]
    /\ UNCHANGED <<nextId, callerConnects, autoReconnects>>

\* 60 s pass.
Clock ==
    /\ ~hung
    /\ \E u \in DOMAIN connections : ~Stale(connections[u])
    /\ connections' = [u \in DOMAIN connections |->
                          [connections[u] EXCEPT !.lastPing = Older(@)]]
    /\ events' = <<>>
    /\ out' = [u \in Accounts |-> <<>>]
    /\ via' = 0
    /\ UNCHANGED <<reconnectAttempts, sockets, timers, hung, raised, nextId, delivered,
                   callerConnects, autoReconnects, gaveUp, subsAtClose, carry>>
    /\ UNCHANGED <<botVars, copyVars, tickHistory, bufferOf>>

\* =================================================== the bot execution engine
\* What part of the engine's state a callback works on.
Executor == [activeBots |-> activeBots, botOrder |-> botOrder, tickData |-> tickData,
             performance |-> performance, trades |-> trades, tasks |-> tasks]

\* A callback suspended at an await of a persistence call.  pc is the call it
\* waits for; gen names the botData object it holds, pos its place in the
\* iteration over activeBots, tick the tick it handles, ref and res what else
\* it carries (a trade id, a contract id, a contract status).  `passed` is
\* history: the botData objects further on in its iteration whose buffers
\* took a later tick while it was suspended.
Task(pc, b, gen, pos, tick, ref, res) ==
    [pc |-> pc, bot |-> b, gen |-> gen, pos |-> pos, tick |-> tick, ref |-> ref, res |-> res,
     passed |-> {}]

Min(a, b) == IF a < b THEN a ELSE b

\* The botData object of generation gen is still the entry of bot b.
Holds(e, b, gen) == Has(e.activeBots, b) /\ e.activeBots[b].gen = gen

\* Positions of the live entries of the map, in iteration order.
Live(e) == {i \in 1..Len(e.botOrder) : e.botOrder[i] # NoBot}

\* ------------------------------------------- session manager requests (193-230)
getProposal(m, u, b) == send(m, u, Msg("proposal", b, 0))

subscribeToContract(m, u, c) == send(m, u, Msg("proposal_open_contract", "", 0))

\* ------------------------------------------- pauseBot (96-102), resumeBot (105-111)
\* A pause that also drops the context's current trade.
pauseAndForget(e, b) ==
    IF ~Has(e.activeBots, b) THEN e
    ELSE [e EXCEPT !.activeBots[b].isRunning = FALSE, !.activeBots[b].currentTrade = 0]

pauseBot(e, b) ==
    IF ~Has(e.activeBots, b) THEN e ELSE [e EXCEPT !.activeBots[b].isRunning = FALSE]

resumeBot(e, b) ==
    IF ~Has(e.activeBots, b) THEN e ELSE [e EXCEPT !.activeBots[b].isRunning = TRUE]

\* ------------------------------------------------ checkRiskManagement (200-217)
checkRiskManagement(d, cfg) ==
    /\ ~(cfg.maxDailyLoss # 0 /\ d.dailyLoss >= cfg.maxDailyLoss)
    /\ ~(cfg.maxConsecutiveLosses # 0 /\ d.consecutiveLosses >= cfg.maxConsecutiveLosses)

\* calculateIndicators (234-249) returns indicators from MinIndicatorTicks ticks
\* on; evaluateStrategy (326-347) holds without indicators and otherwise
\* answers what the prices say, which is the input sig.
evaluateStrategy(d, sig) == IF d.tickBuffer < MinIndicatorTicks THEN "HOLD" ELSE sig

\* --------------------------------------------- handleTickUpdate (135-149)
\* A tick is the number of its frame among the frames of its symbol.  Of a
\* context's tick buffer the model keeps the length and whether the entries
\* are in the order of their frames.
\* The suspended iterations over which the push of `tick` at position i jumps.
Overtaken(e, u, sym, i, tick) ==
    {k \in e.tasks : /\ k.pc \in {"create", "saveBot"}
                     /\ BotConfig[k.bot].userId = u /\ BotConfig[k.bot].symbol = sym
                     /\ k.pos < i /\ k.tick < tick}

\* The loop over activeBots from position i on, up to the first await that
\* waits for I/O: the create call of placeTrade (422).  evaluateTradeSignal
\* (156-184) returns early for a context that is in a trade, that fails the
\* risk rules or whose strategy holds.
RECURSIVE tickLoop(_, _, _, _, _, _, _)
tickLoop(e, u, sym, i, tick, sigs, passed) ==
    IF i > Len(e.botOrder) THEN e
    ELSE LET b == e.botOrder[i] IN
        IF b = NoBot THEN tickLoop(e, u, sym, i + 1, tick, sigs, passed)
        ELSE IF ~(e.activeBots[b].userId = u /\ BotConfig[b].symbol = sym
                  /\ e.activeBots[b].isRunning)
        THEN tickLoop(e, u, sym, i + 1, tick, sigs, passed)
        ELSE LET over == Overtaken(e, u, sym, i, tick)
                 e1 == [e EXCEPT !.activeBots[b].tickBuffer = Min(@ + 1, TickBufferCap),
                                 !.activeBots[b].ordered =
                                     @ /\ e.activeBots[b].gen \notin passed,
                                 !.tasks = (@ \ over) \cup
                                     {[k EXCEPT !.passed = @ \cup {e.activeBots[b].gen}] :
                                         k \in over}]
                 d == e1.activeBots[b]
             IN IF d.currentTrade # 0 \/ ~checkRiskManagement(d, BotConfig[b])
                   \/ evaluateStrategy(d, sigs[b]) = "HOLD"
                THEN tickLoop(e1, u, sym, i + 1, tick, sigs, passed)
                ELSE [e1 EXCEPT !.tasks = @ \cup
                         {[Task("create", b, d.gen, i, tick, 0, "") EXCEPT !.passed = passed]}]

\* handleTickUpdate (114-153), called by the listener of 'tick' (18-20).
handleTickUpdate(e, u, sym, sigs) ==
    LET e1 == [e EXCEPT !.tickData[sym] = Min(@ + 1, TickWindowCap)]
    IN tickLoop(e1, u, sym, 1, e.tickData[sym] + 1, sigs, {})

\* --------------------------------------- handleBuyConfirmation (469-492)
BuyTargets(e, u) ==
    {i \in Live(e) : e.activeBots[e.botOrder[i]].userId = u
                     /\ e.activeBots[e.botOrder[i]].currentTrade # 0}

FirstOf(S) == CHOOSE i \in S : \A j \in S : i <= j

\* The trade is the document the context holds since create; a settlement is
\* written through another document of the same record (498), so the status
\* of the held one is 'pending' until its first confirmation and 'open' from
\* then on, and save() (480) writes the fields that were changed.
handleBuyConfirmation(e, u, c) ==
    IF BuyTargets(e, u) = {} THEN e
    ELSE LET b == e.botOrder[FirstOf(BuyTargets(e, u))]
             t == e.activeBots[b].currentTrade
         IN [e EXCEPT !.trades[t].contractId = c,
                      !.trades[t].status = IF e.trades[t].contractId = 0 THEN "open" ELSE @,
                      !.tasks = @ \cup {Task("saveTrade", b, 0, 0, 0, c, "")}]

\* --------------------------------------- handleContractUpdate (495-533)
TradesOf(e, c) == {t \in 1..Len(e.trades) : e.trades[t].contractId = c}

Finished(res) == res \in {"won", "lost"}

\* contract.profit: what the venue reports for a finished contract, in stakes.
Profit(res) == IF res = "lost" THEN -1 ELSE IF res = "won" THEN 1 ELSE 0

Abs(x) == IF x < 0 THEN -x ELSE x

\* After findOne (498): the record takes the contract's outcome (502-507).
contractFound(e, c, res) ==
    IF TradesOf(e, c) = {} \/ ~Finished(res) THEN e
    ELSE LET t == FirstOf(TradesOf(e, c))
         IN [e EXCEPT !.trades[t].status = res,
                      !.trades[t].profitLoss = Profit(res),
                      !.trades[t].settledBy = c,
                      !.tasks = @ \cup {Task("settle", e.trades[t].botId, 0, 0, 0, t, res)}]

SettleTargets(e, t) ==
    {i \in Live(e) : e.activeBots[e.botOrder[i]].currentTrade = t}

\* updateBotPerformance (536-591) with the trade as the callback holds it.
updateBotPerformance(e, b, res) ==
    [e EXCEPT !.performance[b].totalTrades = @ + 1,
              !.performance[b].totalProfit = IF res = "won" THEN @ + Profit(res) ELSE @,
              !.performance[b].totalLoss = IF res = "lost" THEN @ + Abs(Profit(res)) ELSE @]

\* After the saves (507-510): the bot's aggregates are updated (510) and the
\* context's trade slot is cleared (513-526).
contractSettled(e0, t, res) ==
    LET e == updateBotPerformance(e0, e0.trades[t].botId, res) IN
    IF SettleTargets(e, t) = {} THEN e
    ELSE LET b == e.botOrder[FirstOf(SettleTargets(e, t))]
         IN [e EXCEPT !.activeBots[b].currentTrade = 0,
                      !.activeBots[b].dailyLoss =
                          IF res = "lost" THEN @ + Abs(Profit(res)) ELSE @,
                      !.activeBots[b].consecutiveLosses = IF res = "lost" THEN @ + 1 ELSE 0]

\* =================================================== the copy-trade service
\* Amounts of the User documents are in units of the account currency; a stake
\* is in hundredths of a unit, so that percentages of a balance are exact.
NoUser == ""           \* a deleted entry of a follower set

\* What part of the service's state a callback works on.
Service == [followers |-> followers, dailyLoss |-> dailyLoss, userDocs |-> userDocs,
            copyTrades |-> copyTrades, copyTasks |-> copyTasks, listeners |-> listeners,
            thrown |-> thrown]

\* A callback of the service suspended at an await of a persistence call: the
\* leader and the contract of the confirmation it replicates, the original
\* trade, its place in the iteration over the follower set, the follower it
\* is copying to and the stake it computed; for a settlement listener the
\* copy trade (orig) and the contract's reported status (res).
CTask(pc, l, c, orig, pos, f, stake, res) ==
    [pc |-> pc, leader |-> l, contract |-> c, orig |-> orig, pos |-> pos, follower |-> f,
     stake |-> stake, res |-> res]

\* Positions of the live entries of leader l's follower set, in iteration order.
LiveFollowers(s, l) ==
    IF Has(s.followers, l)
    THEN {i \in 1..Len(s.followers[l]) : s.followers[l][i] # NoUser} ELSE {}

\* ------------------------------------------------- registerFollower (23-31)
\* A registration that keeps the followers of a leader in a list.
registerAppend(s, f, l) ==
    [s EXCEPT !.followers = Put(@, l, (IF Has(s.followers, l) THEN s.followers[l] ELSE <<>>)
                                          \o <<f>>),
              !.dailyLoss = Put(@, f, 0)]

registerFollower(s, f, l) ==
    LET cur == IF Has(s.followers, l) THEN s.followers[l] ELSE <<>>
        new == IF \E i \in 1..Len(cur) : cur[i] = f THEN cur ELSE Append(cur, f)
    IN [s EXCEPT !.followers = Put(@, l, new), !.dailyLoss = Put(@, f, 0)]

\* ----------------------------------------------- unregisterFollower (34-40)
unregisterFollower(s, f, l) ==
    IF ~Has(s.followers, l) THEN s
    ELSE LET cur == s.followers[l]
         IN [s EXCEPT !.followers[l] =
                 [i \in 1..Len(cur) |-> IF cur[i] = f THEN NoUser ELSE cur[i]]]

\* --------------------------------------------------- replicateTrade (43-77)
\* Up to the await of findOne (52): nothing happens for a user without followers.
replicateTrade(s, l, c) ==
    IF LiveFollowers(s, l) = {} THEN s
    ELSE [s EXCEPT !.copyTasks = @ \cup {CTask("findOrig", l, c, 0, 0, NoUser, 0, "")}]

\* findOne({userId, contractId}) (52-55) on the Trade collection: the leader's
\* trade carries the contract id once handleBuyConfirmation has saved it.
OrigOf(l, c) ==
    {t \in 1..Len(trades) :
        /\ trades[t].contractId = c
        /\ BotConfig[trades[t].botId].userId = l
        /\ ~\E k \in tasks : k.pc = "saveTrade" /\ k.ref = c}

\* The for loop (66-72) goes on with the entries after position t.pos, up to
\* the await of the follower's lookup (83); s no longer holds t.
nextFollower(s, t) ==
    LET rest == {i \in LiveFollowers(s, t.leader) : i > t.pos}
    IN IF rest = {} THEN s
       ELSE LET i == FirstOf(rest)
            IN [s EXCEPT !.copyTasks = @ \cup
                   {[t EXCEPT !.pc = "findFollower", !.pos = i,
                              !.follower = s.followers[t.leader][i], !.stake = 0]}]

\* After findOne (57-63): without the original trade nothing is replicated.
replicateFound(s, t, found) ==
    IF found = {} THEN s
    ELSE [s EXCEPT !.copyTasks = @ \cup {[t EXCEPT !.pc = "findLeader", !.orig = FirstOf(found)]}]

\* ------------------------------------------ calculateFollowerStake (156-171)
\* A stake rule in which the percentage overrides the fixed amount.
percentageFirst(doc, originalStake) ==
    IF doc.riskPercentage # 0 THEN doc.balance * doc.riskPercentage
    ELSE IF doc.investmentPerTrade # 0 THEN doc.investmentPerTrade * 100
    ELSE Min(originalStake * 100, doc.balance * 2)

\* balance * riskPercentage / 100 and balance * 0.02 are taken as exact.
calculateFollowerStake(doc, originalStake) ==
    IF doc.investmentPerTrade # 0 THEN doc.investmentPerTrade * 100
    ELSE IF doc.riskPercentage # 0 THEN doc.balance * doc.riskPercentage
    ELSE Min(originalStake * 100, doc.balance * 2)

DailyLossOf(s, f) == IF Has(s.dailyLoss, f) THEN s.dailyLoss[f] ELSE 0

\* -------------------------------------------- copyTradeToFollower (80-153)
\* After the follower's lookup (83), up to the await of create (117).
copyTradeToFollower(s, m, t, originalStake) ==
    LET f == t.follower
        doc == s.userDocs[f]
    IN  IF ~doc.enabled THEN nextFollower(s, t)
        ELSE IF t.leader \notin doc.following
        THEN nextFollower(unregisterFollower(s, f, t.leader), t)
        ELSE IF DailyLossOf(s, f) >= doc.maxDailyLoss THEN nextFollower(s, t)
        ELSE IF ~isConnected(m, f) THEN nextFollower(s, t)
        ELSE LET stake == calculateFollowerStake(doc, originalStake)
             IN IF doc.balance * 100 < stake THEN nextFollower(s, t)
                ELSE [s EXCEPT !.copyTasks = @ \cup
                         {[t EXCEPT !.pc = "createCopy", !.stake = stake]}]

\* After create (117-147): the record exists, the proposal request is made
\* (by the action) and the settlement listener is attached.  `bought` and
\* `outcome` are history: the contract the venue opened for the trade and
\* what the venue reported for it.
copyCreated(s, t) ==
    LET id == Len(s.copyTrades) + 1
        rec == [userId |-> t.follower, leader |-> t.leader, orig |-> t.orig,
                stake |-> t.stake, status |-> "pending", contractId |-> 0,
                bought |-> 0, outcome |-> ""]
    IN nextFollower([s EXCEPT !.copyTrades = Append(@, rec),
                              !.listeners = @ \cup {id}], t)

\* A loop without the catch of 69-71: the exception ends the iteration and
\* leaves the listener.
copyRejectedUncaught(s, t) == [s EXCEPT !.thrown = TRUE]

\* A persistence call of copyTradeToFollower rejects: its catch (149-152)
\* throws again and the catch of the loop (69-71) logs it.
copyRejected(s, t) == nextFollower(s, t)

\* A persistence call of replicateTrade itself rejects: the outer catch (74-76).
replicateRejected(s, t) == s

\* ------------------------------------------ setupCopyTradeListener (174-200)
\* The handlers attached for user u, up to the await of findById (181).
copyListeners(s, u, c, res) ==
    [s EXCEPT !.copyTasks = @ \cup
        {CTask("findCopy", NoUser, c, id, 0, u, 0, res) :
            id \in {x \in s.listeners : s.copyTrades[x].userId = u}}]

\* After findById (182-193).
copySettled(s, t) ==
    IF s.copyTrades[t.orig].contractId # t.contract \/ ~Finished(t.res) THEN s
    ELSE [s EXCEPT !.dailyLoss = IF t.res = "lost"
                                 THEN Put(@, t.follower,
                                          DailyLossOf(s, t.follower) + Abs(Profit(t.res)))
                                 ELSE @,
                   !.listeners = @ \ {t.orig}]

\* --------------------------------------------------- resetDailyLoss (203-206)
resetDailyLoss(s) == [s EXCEPT !.dailyLoss = EmptyMap]

\* The follower set of leader l is being iterated.
Iterating(s, l) ==
    \E t \in s.copyTasks : t.leader = l /\ t.pc \in {"findFollower", "createCopy"}

RECURSIVE Compact(_)
Compact(seq) ==
    IF seq = <<>> THEN <<>>
    ELSE (IF Head(seq) = NoUser THEN <<>> ELSE <<Head(seq)>>) \o Compact(Tail(seq))

\* The state a callback of the service leaves behind.  A deleted entry of a
\* follower set matters only to an iteration in progress.
LeaveCopy(s) ==
    /\ followers' = [l \in DOMAIN s.followers |->
                        IF Iterating(s, l) THEN s.followers[l] ELSE Compact(s.followers[l])]
    /\ dailyLoss' = s.dailyLoss
    /\ userDocs' = s.userDocs
    /\ copyTrades' = s.copyTrades
    /\ copyTasks' = s.copyTasks
    /\ listeners' = s.listeners
    /\ thrown' = s.thrown

\* The venue opens contract c for the oldest pending copy trade of user u.
Bought(s, u, c) ==
    LET open == {i \in 1..Len(s.copyTrades) :
                    s.copyTrades[i].userId = u /\ s.copyTrades[i].bought = 0}
    IN IF open = {} THEN s ELSE [s EXCEPT !.copyTrades[FirstOf(open)].bought = c]

\* The copy trades for which the venue opened contract c and has not yet
\* reported an outcome.
CopiesOf(s, c) ==
    {i \in 1..Len(s.copyTrades) :
        s.copyTrades[i].bought = c /\ ~Finished(s.copyTrades[i].outcome)}

\* The venue reports res for contract c.
Outcome(s, c, res) ==
    IF CopiesOf(s, c) = {} \/ ~Finished(res) THEN s
    ELSE [s EXCEPT !.copyTrades[FirstOf(CopiesOf(s, c))].outcome = res]

\* The user on whose session contract c was confirmed, as far as a record tells.
BoughtBy(c) ==
    IF \E t \in 1..Len(trades) : trades[t].contractId = c
    THEN {BotConfig[trades[t].botId].userId : t \in {x \in 1..Len(trades) : trades[x].contractId = c}}
    ELSE IF \E i \in 1..Len(copyTrades) : copyTrades[i].bought = c
    THEN {copyTrades[i].userId : i \in {x \in 1..Len(copyTrades) : copyTrades[x].bought = c}}
    ELSE Accounts

\* ------------------------------------------------------------ bot actions
\* The state a callback of the executor leaves behind.
LeaveBots(e) ==
    /\ activeBots' = e.activeBots
    /\ botOrder' = e.botOrder
    /\ tickData' = e.tickData
    /\ performance' = e.performance
    /\ trades' = e.trades
    /\ tasks' = e.tasks

CreatesPending(e) == Cardinality({t \in e.tasks : t.pc = "create"})

\* Event t was emitted for user u by the callback that leaves m.
Emitted(m, t, u) == \E i \in 1..Len(m.events) : m.events[i] = [type |-> t, userId |-> u]

\* A frame with a tick arrives on transport w, on which the ticks of its
\* symbol were requested: if handleMessage emits 'tick', the executor's
\* listener handles it.
TickFrameUpTo(w, sigs, maxTicks) ==
    /\ ~hung
    /\ sockets[w].state \in {"OPEN", "CLOSING"}
    /\ \E sym \in sockets[w].ticksReq :
        /\ tickData[sym] < maxTicks
        /\ LET u == sockets[w].user
               m == handleMessage(Manager, u, {"tick"})
               e == IF Emitted(m, "tick", u)
                    THEN handleTickUpdate(Executor, u, sym, sigs) ELSE Executor
           IN /\ Cardinality(e.tasks) <= MaxTasks
              /\ Len(trades) + CreatesPending(e) <= MaxTrades
              /\ Leave(m, w)
              /\ LeaveBots(e)
    /\ UNCHANGED <<gaveUp, nextId, callerConnects, autoReconnects, subsAtClose, carry,
                   starts, buys>>
    /\ UNCHANGED copyVars

TickFrame(w, sigs) == TickFrameUpTo(w, sigs, MaxTicks)

\* The venue answers a proposal request that was written on transport w:
\* handleMessage emits 'proposal', for which no listener is registered (14-36).
ProposalFrame(w) ==
    /\ ~hung
    /\ sockets[w].state \in {"OPEN", "CLOSING"}
    /\ sockets[w].propReq # {}
    /\ CommitFrame(handleMessage(Manager, sockets[w].user, {"proposal"}), w)
    /\ UNCHANGED <<nextId, callerConnects, autoReconnects, subsAtClose, carry>>

\* placeTrade after create (422-460): the record exists, the proposal request
\* is made and the trade becomes the current trade of the botData object the
\* callback holds; then it waits for bot.save().
PlaceTradeCreated ==
    /\ ~hung
    /\ \E t \in tasks :
        /\ t.pc = "create"
        /\ LET u == BotConfig[t.bot].userId
               id == Len(trades) + 1
               rec == [botId |-> t.bot, gen |-> t.gen, tick |-> t.tick,
                       stake |-> BotConfig[t.bot].stake,
                       status |-> "pending", contractId |-> 0, profitLoss |-> 0,
                       settledBy |-> 0]
           IN /\ Leave(getProposal(Manager, u, t.bot), 0)
              /\ trades' = Append(trades, rec)
              /\ activeBots' = IF Holds(Executor, t.bot, t.gen)
                               THEN [activeBots EXCEPT ![t.bot].currentTrade = id]
                               ELSE activeBots
              /\ tasks' = (tasks \ {t}) \cup {[t EXCEPT !.pc = "saveBot", !.ref = id]}
        /\ UNCHANGED <<botOrder, tickData, performance, starts, buys>>
        /\ UNCHANGED <<gaveUp, nextId, callerConnects, autoReconnects, subsAtClose, carry>>
        /\ UNCHANGED copyVars

\* create (422) rejects: placeTrade logs and throws again (462-465); the catch
\* of evaluateTradeSignal (187-197) names `bot`, a constant of the try block
\* that is not in scope there, so it throws a ReferenceError; the catch of
\* handleTickUpdate (150-152), which is around the whole loop, logs it and
\* the callback ends.
placeTradeRejected(e, t) == [e EXCEPT !.tasks = @ \ {t}]

PlaceTradeRejected ==
    /\ ~hung
    /\ \E t \in tasks :
        /\ t.pc = "create"
        /\ LeaveBots(placeTradeRejected(Executor, t))
        /\ UNCHANGED <<smVars, starts, buys, copyVars>>

\* placeTrade returns after bot.save() (460) and the loop of handleTickUpdate
\* goes on with the entries after the one it had reached.
PlaceTradeSaved(sigs) ==
    /\ ~hung
    /\ \E t \in tasks :
        /\ t.pc = "saveBot"
        /\ LET e == tickLoop([Executor EXCEPT !.tasks = @ \ {t}], BotConfig[t.bot].userId,
                             BotConfig[t.bot].symbol, t.pos + 1, t.tick, sigs, t.passed)
           IN /\ Len(trades) + CreatesPending(e) <= MaxTrades
              /\ LeaveBots(e)
        /\ UNCHANGED <<smVars, starts, buys, copyVars>>

\* A buy confirmation arrives on transport w: handleMessage emits 'buy' and
\* the listeners of the executor and of the copy-trade service handle it.
BuyFrame(w, maxBuys) ==
    /\ ~hung
    /\ sockets[w].state \in {"OPEN", "CLOSING"}
    /\ Has(connections, sockets[w].user)
    /\ buys < maxBuys
    /\ LET u == sockets[w].user
           e == handleBuyConfirmation(Executor, u, buys + 1)
           s == replicateTrade(Bought(Service, u, buys + 1), u, buys + 1)
       IN /\ Cardinality(e.tasks) <= MaxTasks
          /\ Cardinality(s.copyTasks) <= MaxCopyTasks
          /\ Leave(handleMessage(Manager, u, {"buy"}), w)
          /\ LeaveBots(e)
          /\ LeaveCopy(s)
    /\ buys' = buys + 1
    /\ UNCHANGED <<gaveUp, nextId, callerConnects, autoReconnects, subsAtClose, carry, starts>>
    /\ UNCHANGED <<follows, copyFailed, copyLoss>>

\* handleBuyConfirmation after trade.save() (480-486).
BuySaved ==
    /\ ~hung
    /\ \E t \in tasks :
        /\ t.pc = "saveTrade"
        /\ Leave(subscribeToContract(Manager, BotConfig[t.bot].userId, t.ref), 0)
        /\ tasks' = tasks \ {t}
        /\ UNCHANGED <<activeBots, botOrder, tickData, performance, trades, starts, buys>>
        /\ UNCHANGED <<gaveUp, nextId, callerConnects, autoReconnects, subsAtClose, carry>>
        /\ UNCHANGED copyVars

\* A contract finishes once: after the venue has reported contract c as won
\* or lost, its updates for c report the same.  The field settledBy of a trade
\* record is history: the contract whose update wrote the record's outcome.
Reported(c) ==
    {trades[t].status : t \in {x \in 1..Len(trades) : trades[x].settledBy = c}}
    \cup {t.res : t \in {x \in tasks : x.pc = "findTrade" /\ x.ref = c /\ Finished(x.res)}}
    \cup {copyTrades[i].outcome : i \in {x \in 1..Len(copyTrades) :
              copyTrades[x].bought = c /\ Finished(copyTrades[x].outcome)}}

Outcomes(c) == IF Reported(c) = {} THEN {"open", "won", "lost"} ELSE Reported(c)

\* A contract update for contract c arrives on transport w, the transport of
\* the user for whom it was opened: handleMessage emits 'contract_update', the
\* executor's listener starts handleContractUpdate, which first looks the
\* trade up (498), and so do the settlement listeners of the user's copy trades.
ContractFrame(w, c, res) ==
    /\ ~hung
    /\ sockets[w].state \in {"OPEN", "CLOSING"}
    /\ Has(connections, sockets[w].user)
    /\ c \in 1..buys
    /\ sockets[w].user \in BoughtBy(c)
    /\ res \in Outcomes(c)
    /\ Cardinality(tasks) < MaxTasks
    /\ Finished(res) => \A b \in Bots :
          performance[b].totalTrades
            + Cardinality({k \in tasks : k.pc \in {"findTrade", "settle"}}) < MaxCounted
    /\ Task("findTrade", NoBot, 0, 0, 0, c, res) \notin tasks
    /\ Leave(handleMessage(Manager, sockets[w].user, {"proposal_open_contract"}), w)
    /\ tasks' = tasks \cup {Task("findTrade", NoBot, 0, 0, 0, c, res)}
    /\ LET u == sockets[w].user
           s == copyListeners(Outcome(Service, c, res), u, c, res)
       IN /\ Cardinality(s.copyTasks) <= MaxCopyTasks
          /\ LeaveCopy(s)
          /\ copyLoss' = IF CopiesOf(Service, c) # {} /\ res = "lost"
                         THEN [copyLoss EXCEPT ![u] = @ + Abs(Profit(res))] ELSE copyLoss
    /\ UNCHANGED <<activeBots, botOrder, tickData, performance, trades, starts, buys>>
    /\ UNCHANGED <<gaveUp, nextId, callerConnects, autoReconnects, subsAtClose, carry>>
    /\ UNCHANGED <<follows, copyFailed>>

ContractFound ==
    /\ ~hung
    /\ \E t \in tasks :
        /\ t.pc = "findTrade"
        /\ LeaveBots(contractFound([Executor EXCEPT !.tasks = @ \ {t}], t.ref, t.res))
        /\ UNCHANGED <<smVars, starts, buys, copyVars>>

ContractSettled ==
    /\ ~hung
    /\ \E t \in tasks :
        /\ t.pc = "settle"
        /\ LeaveBots(contractSettled([Executor EXCEPT !.tasks = @ \ {t}], t.ref, t.res))
        /\ UNCHANGED <<smVars, starts, buys, copyVars>>

\* The controller starts a bot of a connected user (botController 17-25):
\* startBot (39-72) first loads the bot document (41).
CallStartBot(b) ==
    /\ ~hung
    /\ isConnected(Manager, BotConfig[b].userId)
    /\ starts < MaxStarts
    /\ Cardinality(tasks) < MaxTasks
    /\ tasks' = tasks \cup {Task("findBot", b, starts + 1, 0, 0, 0, "")}
    /\ starts' = starts + 1
    /\ UNCHANGED <<smVars, activeBots, botOrder, tickData, performance, trades, buys, copyVars>>

\* startBot after findById (47-65): subscribes and installs a new botData.
StartBotFound ==
    /\ ~hung
    /\ \E t \in tasks :
        /\ t.pc = "findBot"
        /\ LET u == BotConfig[t.bot].userId
               sym == BotConfig[t.bot].symbol
           IN /\ Leave(subscribeTicks(Manager, u, sym, 0), 0)
              /\ subsAtClose' = IF Has(subsAtClose, u) /\ Has(connections, u)
                                THEN [subsAtClose EXCEPT ![u] = @ \cup {sym}] ELSE subsAtClose
        /\ activeBots' = Put(activeBots, t.bot,
                             [userId |-> BotConfig[t.bot].userId, isRunning |-> TRUE,
                              currentTrade |-> 0, dailyLoss |-> 0, consecutiveLosses |-> 0,
                              tickBuffer |-> 0, ordered |-> TRUE,
                              gen |-> t.gen])
        /\ botOrder' = IF Has(activeBots, t.bot) THEN botOrder ELSE Append(botOrder, t.bot)
        /\ tasks' = tasks \ {t}
        /\ UNCHANGED <<tickData, performance, trades, starts, buys, copyVars>>
        /\ UNCHANGED <<gaveUp, nextId, callerConnects, autoReconnects, carry>>

\* A caller invokes stopBot (75-93).
CallStopBot(b) ==
    /\ ~hung
    /\ Has(activeBots, b)
    /\ LET u == activeBots[b].userId
           sym == BotConfig[b].symbol
       IN /\ Leave(unsubscribeTicks(Manager, u, sym, 0), 0)
          /\ subsAtClose' = IF Has(subsAtClose, u) /\ Has(connections, u)
                            THEN [subsAtClose EXCEPT ![u] = @ \ {sym}] ELSE subsAtClose
    /\ activeBots' = Del(activeBots, b)
    /\ botOrder' = [i \in 1..Len(botOrder) |-> IF botOrder[i] = b THEN NoBot ELSE botOrder[i]]
    /\ UNCHANGED <<tickData, performance, trades, tasks, starts, buys, copyVars>>
    /\ UNCHANGED <<gaveUp, nextId, callerConnects, autoReconnects, carry>>

\* A caller invokes pauseBot (96-102) or resumeBot (105-111).
CallPauseBot(b) ==
    /\ ~hung
    /\ Has(activeBots, b) /\ activeBots[b].isRunning
    /\ LeaveBots(pauseBot(Executor, b))
    /\ UNCHANGED <<smVars, starts, buys, copyVars>>

CallResumeBot(b) ==
    /\ ~hung
    /\ Has(activeBots, b) /\ ~activeBots[b].isRunning
    /\ LeaveBots(resumeBot(Executor, b))
    /\ UNCHANGED <<smVars, starts, buys, copyVars>>

\* ------------------------------------------------------ copy-trade actions
\* What a follow request may carry for each setting; 0 stands for a field
\* that is absent from the request.
FollowBodies == [investmentPerTrade : {0}, riskPercentage : {0}, maxDailyLoss : {0}]

\* followLeader (part_002 463-529) of a subscribed user f for leader l: the
\* settings and the following list are saved, then the follower is registered.
\* Nothing of the service reads the document before it is registered.
FollowLeader(f, l, body, maxFollows) ==
    /\ ~hung
    /\ follows < maxFollows
    /\ l # f
    /\ l \in Users
    /\ l \notin userDocs[f].following
    /\ LET doc == [userDocs[f] EXCEPT
                      !.enabled = TRUE,
                      !.investmentPerTrade = IF body.investmentPerTrade # 0
                                             THEN body.investmentPerTrade ELSE 10,
                      !.riskPercentage = IF body.riskPercentage # 0
                                         THEN body.riskPercentage ELSE 2,
                      !.maxDailyLoss = IF body.maxDailyLoss # 0
                                       THEN body.maxDailyLoss ELSE 100,
                      !.following = @ \cup {l}]
       IN LeaveCopy(registerFollower([Service EXCEPT !.userDocs[f] = doc], f, l))
    /\ follows' = follows + 1
    /\ UNCHANGED <<smVars, botVars, copyFailed, copyLoss>>

\* updateCopyTradeSettings (part_002 658-668) with a request that carries
\* only `enabled`.
UpdateSettings(f, enabled) ==
    /\ ~hung
    /\ userDocs[f].enabled # enabled
    /\ userDocs' = [userDocs EXCEPT ![f].enabled = enabled]
    /\ UNCHANGED <<smVars, botVars, followers, dailyLoss, copyTrades, copyTasks, listeners,
                   thrown, follows, copyFailed, copyLoss>>

\* unfollowLeader (part_002 534-566) of user f for leader l: the following
\* list (and `enabled`, when the list becomes empty) is saved (549-553); the
\* service is told after the leader's document is saved as well.
UnfollowLeader(f, l) ==
    /\ ~hung
    /\ l \in userDocs[f].following
    /\ Cardinality(copyTasks) < MaxCopyTasks
    /\ userDocs' = [userDocs EXCEPT ![f].following = @ \ {l},
                                    ![f].enabled = IF userDocs[f].following = {l}
                                                   THEN FALSE ELSE @]
    /\ copyTasks' = copyTasks \cup {CTask("unfollow", l, 0, 0, 0, f, 0, "")}
    /\ UNCHANGED <<smVars, botVars, followers, dailyLoss, copyTrades, listeners, thrown,
                   follows, copyFailed, copyLoss>>

\* unfollowLeader after the saves (561): the follower is unregistered.
UnfollowSaved ==
    /\ ~hung
    /\ \E t \in copyTasks :
        /\ t.pc = "unfollow"
        /\ LeaveCopy(unregisterFollower([Service EXCEPT !.copyTasks = @ \ {t}],
                                        t.follower, t.leader))
    /\ UNCHANGED <<smVars, botVars, follows, copyFailed, copyLoss>>

\* A caller invokes resetDailyLoss.
CallResetDailyLoss ==
    /\ ~hung
    /\ DOMAIN dailyLoss # {}
    /\ LeaveCopy(resetDailyLoss(Service))
    /\ copyLoss' = [f \in Followers |-> 0]
    /\ UNCHANGED <<smVars, botVars, follows, copyFailed>>

\* replicateTrade after findOne (52-60).
ReplicateFound ==
    /\ ~hung
    /\ \E t \in copyTasks :
        /\ t.pc = "findOrig"
        /\ LeaveCopy(replicateFound([Service EXCEPT !.copyTasks = @ \ {t}], t,
                                    OrigOf(t.leader, t.contract)))
    /\ UNCHANGED <<smVars, botVars, follows, copyFailed, copyLoss>>

\* replicateTrade after the leader's lookup (63): the loop starts.
ReplicateLeaderFound ==
    /\ ~hung
    /\ \E t \in copyTasks :
        /\ t.pc = "findLeader"
        /\ LeaveCopy(nextFollower([Service EXCEPT !.copyTasks = @ \ {t}], t))
    /\ UNCHANGED <<smVars, botVars, follows, copyFailed, copyLoss>>

\* findOne (52) or the leader's lookup (63) rejects.
ReplicateRejected(maxFailed) ==
    /\ ~hung
    /\ copyFailed < maxFailed
    /\ \E t \in copyTasks :
        /\ t.pc \in {"findOrig", "findLeader"}
        /\ LeaveCopy(replicateRejected([Service EXCEPT !.copyTasks = @ \ {t}], t))
    /\ copyFailed' = copyFailed + 1
    /\ UNCHANGED <<smVars, botVars, follows, copyLoss>>

\* copyTradeToFollower after the follower's lookup (83-114).
CopyFollowerFound ==
    /\ ~hung
    /\ \E t \in copyTasks :
        /\ t.pc = "findFollower"
        /\ LeaveCopy(copyTradeToFollower([Service EXCEPT !.copyTasks = @ \ {t}], Manager, t,
                                         trades[t.orig].stake))
    /\ UNCHANGED <<smVars, botVars, follows, copyFailed, copyLoss>>

\* copyTradeToFollower after create (117-147).
CopyCreated ==
    /\ ~hung
    /\ \E t \in copyTasks :
        /\ t.pc = "createCopy"
        /\ Leave(getProposal(Manager, t.follower, t.follower), 0)
        /\ LeaveCopy(copyCreated([Service EXCEPT !.copyTasks = @ \ {t}], t))
    /\ UNCHANGED <<gaveUp, nextId, callerConnects, autoReconnects, subsAtClose, carry>>
    /\ UNCHANGED <<botVars, follows, copyFailed, copyLoss>>

\* The follower's lookup (83) or create (117) rejects.
CopyRejected(maxFailed) ==
    /\ ~hung
    /\ copyFailed < maxFailed
    /\ \E t \in copyTasks :
        /\ t.pc \in {"findFollower", "createCopy"}
        /\ LeaveCopy(copyRejected([Service EXCEPT !.copyTasks = @ \ {t}], t))
    /\ copyFailed' = copyFailed + 1
    /\ UNCHANGED <<smVars, botVars, follows, copyLoss>>

\* A settlement listener after findById (181-193).
CopyListenerFound ==
    /\ ~hung
    /\ \E t \in copyTasks :
        /\ t.pc = "findCopy"
        /\ LeaveCopy(copySettled([Service EXCEPT !.copyTasks = @ \ {t}], t))
    /\ UNCHANGED <<smVars, botVars, follows, copyFailed, copyLoss>>

\* Frames of the venue's protocol: one top-level key each.
VenueFrames == {{"authorize"}, {"error"}, {"tick"}}
AuthFrames == {{"authorize"}, {"error"}}

InitManager ==
    /\ connections = EmptyMap
    /\ reconnectAttempts = EmptyMap
    /\ sockets = [w \in SockIds |-> FreeSock]
    /\ timers = [u \in Accounts |-> 0]
    /\ hung = FALSE
    /\ raised = FALSE
    /\ events = <<>>
    /\ out = [u \in Accounts |-> <<>>]
    /\ via = 0
    /\ nextId = 0
    /\ delivered = <<>>
    /\ callerConnects = 0
    /\ autoReconnects = [u \in Accounts |-> 0]
    /\ gaveUp = [u \in Accounts |-> 0]
    /\ subsAtClose = EmptyMap
    /\ carry = EmptyMap

InitExecutor ==
    /\ activeBots = EmptyMap
    /\ botOrder = <<>>
    /\ tickData = [sym \in Symbols |-> 0]
    /\ performance = [b \in Bots |-> NoPerformance]
    /\ trades = <<>>
    /\ tasks = {}
    /\ starts = 0
    /\ buys = 0

InitService ==
    /\ followers = EmptyMap
    /\ dailyLoss = EmptyMap
    /\ userDocs = [f \in Followers |-> NewUser(f)]
    /\ copyTrades = <<>>
    /\ copyTasks = {}
    /\ listeners = {}
    /\ thrown = FALSE
    /\ follows = 0
    /\ copyFailed = 0
    /\ copyLoss = [f \in Followers |-> 0]

InitTicks ==
    /\ tickHistory = [sym \in Symbols |-> <<>>]
    /\ bufferOf = [b \in Bots |-> <<>>]

Init == InitManager /\ InitExecutor /\ InitService /\ InitTicks

\* The session life cycle: callers, socket events, reconnect timers.
Next ==
    \/ \E u \in Users, tok \in Tokens : CallConnect(u, tok, MaxConnects)
    \/ \E u \in Users : CallDisconnect(u)
    \/ \E u \in Users : CallSend(u, MaxSends)
    \/ \E u \in Users, sym \in Symbols : CallSubscribeTicks(u, sym, MaxSends)
    \/ \E u \in Users, sym \in Symbols : CallUnsubscribeTicks(u, sym, MaxSends)
    \/ \E w \in SockIds : SocketOpen(w)
    \/ \E w \in SockIds : SocketClose(w, MaxTimers)
    \/ \E w \in SockIds, frame \in VenueFrames : Deliver(w, frame)
    \/ \E u \in Users : TimerFires(u, MaxAuto)

Spec == Init /\ [][Next]_vars

\* The liveness check: a clock, the periodic healthCheck and sessions of users
\* with and without a token.
NextHealth ==
    \/ \E u \in Users, tok \in Tokens \cup {NoToken} : CallConnect(u, tok, 1)
    \/ \E w \in SockIds : SocketOpen(w)
    \/ \E w \in SockIds : SocketClose(w, maxReconnectAttempts)
    \/ \E w \in SockIds, frame \in {{"authorize"}, {"ping"}, {"tick"}} : Deliver(w, frame)
    \/ \E u \in Users : TimerFires(u, MaxAuto)
    \/ HealthCheck(maxReconnectAttempts)
    \/ Clock

SpecHealth == Init /\ [][NextHealth]_vars

\* A venue that never answers: every transport closes without authenticating.
NextReconnect ==
    \/ \E u \in Users, tok \in Tokens : CallConnect(u, tok, 1)
    \/ \E u \in Users : CallSend(u, MaxSends)
    \/ \E u \in Users, sym \in Symbols : CallSubscribeTicks(u, sym, MaxSends)
    \/ \E w \in SockIds : SocketOpen(w)
    \/ \E w \in SockIds : SocketClose(w, MaxTimers)
    \/ \E u \in Users : TimerFires(u, maxReconnectAttempts + 1)

SpecReconnect == Init /\ [][NextReconnect]_vars

\* Inbound dispatch: any frame of up to MaxFrameKeys top-level keys.
Frames == {f \in SUBSET Keys : Cardinality(f) <= MaxFrameKeys}

NextDispatch ==
    \/ \E u \in Users, tok \in Tokens : CallConnect(u, tok, 1)
    \/ \E u \in Users : CallSend(u, 1)
    \/ \E w \in SockIds : SocketOpen(w)
    \/ \E w \in SockIds, frame \in Frames : Deliver(w, frame)

SpecDispatch == Init /\ [][NextDispatch]_vars

\* The outbound queue: sends before and after authentication, sessions that
\* are replaced by callers and by reconnect timers.
NextQueue ==
    \/ \E u \in Users, tok \in Tokens : CallConnect(u, tok, MaxConnects)
    \/ \E u \in Users : CallSend(u, MaxSends)
    \/ \E w \in SockIds : SocketOpen(w)
    \/ \E w \in SockIds : SocketClose(w, 1)
    \/ \E w \in SockIds, frame \in AuthFrames : Deliver(w, frame)
    \/ \E u \in Users : TimerFires(u, 1)

SpecQueue == Init /\ [][NextQueue]_vars

\* Faults of the transport: a socket that cannot be created, a socket that
\* reports an error, a write that throws.
NextFaults ==
    \/ \E u \in Users, tok \in Tokens : CallConnect(u, tok, MaxConnects)
    \/ \E u \in Users : CallConnectFails(u, MaxConnects)
    \/ \E u \in Users : CallSend(u, MaxSends)
    \/ \E u \in Users : CallSendFails(u, MaxSends)
    \/ \E w \in SockIds : SocketOpen(w)
    \/ \E w \in SockIds : SocketError(w)
    \/ \E w \in SockIds : SocketClose(w, 1)
    \/ \E w \in SockIds, frame \in AuthFrames : Deliver(w, frame)
    \/ \E u \in Users : TimerFires(u, 1)

SpecFaults == Init /\ [][NextFaults]_vars

\* The execution engine over one authenticated session: ticks, buy
\* confirmations and contract updates of the venue, the persistence calls
\* that complete in between, and the callers' start, stop, pause and resume.
\* One bot; the strategy of a bot that does not run has nothing to answer.
OneBot == {"b1"}
OneBotSignals == {sigs \in [Bots -> Signals] : \A b \in Bots \ OneBot : sigs[b] = "HOLD"}

NextBot ==
    \/ \E u \in Users, tok \in Tokens : CallConnect(u, tok, 1)
    \/ \E w \in SockIds : SocketOpen(w)
    \/ \E w \in SockIds : Deliver(w, {"authorize"})
    \/ \E b \in OneBot : CallStartBot(b)
    \/ StartBotFound
    \/ \E b \in OneBot : CallStopBot(b)
    \/ \E b \in OneBot : CallPauseBot(b)
    \/ \E b \in OneBot : CallResumeBot(b)
    \/ \E w \in SockIds, sigs \in OneBotSignals : TickFrame(w, sigs)
    \/ PlaceTradeCreated
    \/ \E w \in SockIds : ProposalFrame(w)
    \/ \E sigs \in OneBotSignals : PlaceTradeSaved(sigs)
    \/ \E w \in SockIds : BuyFrame(w, MaxBuys)
    \/ BuySaved
    \/ \E w \in SockIds, c \in 1..MaxBuys, res \in {"open", "won", "lost"} :
           ContractFrame(w, c, res)
    \/ ContractFound
    \/ ContractSettled

SpecBot == Init /\ [][NextBot]_vars

\* Copy trading: a leader whose bot trades, followers with sessions of their
\* own, the venue's confirmations and contract updates on either side.  The
\* users log in one after the other, and the sessions and the follower set
\* are set up before the venue's first tick; the leader's bot trades once; the
\* venue confirms an order on a session on which a price was requested, for a
\* trade that awaits it, and the contract updates are those of the followers.
LoginOrder == <<"u1", "f1", "f3">>

MayLogin(i) ==
    /\ ~Has(connections, LoginOrder[i])
    /\ \A j \in 1..(i - 1) : isConnected(Manager, LoginOrder[j])

Quiet == \A sym \in Symbols : tickData[sym] = 0

\* User u has a trade for which the venue has not confirmed an order.
Awaited(u) ==
    \/ \E t \in 1..Len(trades) :
          BotConfig[trades[t].botId].userId = u /\ trades[t].contractId = 0
    \/ \E i \in 1..Len(copyTrades) : copyTrades[i].userId = u /\ copyTrades[i].bought = 0

NextCopy ==
    \/ \E i \in 1..Len(LoginOrder), tok \in Tokens :
           Quiet /\ MayLogin(i) /\ CallConnect(LoginOrder[i], tok, Len(LoginOrder))
    \/ \E w \in SockIds : Quiet /\ SocketOpen(w)
    \/ \E w \in SockIds : Quiet /\ Deliver(w, {"authorize"})
    \/ \E b \in OneBot : starts = 0 /\ CallStartBot(b)
    \/ StartBotFound
    \/ \E w \in SockIds, sigs \in OneBotSignals :
           trades = <<>> /\ CreatesPending(Executor) = 0 /\ TickFrame(w, sigs)
    \/ PlaceTradeCreated
    \/ \E sigs \in OneBotSignals : PlaceTradeSaved(sigs)
    \/ \E w \in SockIds :
           sockets[w].propReq # {} /\ Awaited(sockets[w].user) /\ BuyFrame(w, 2)
    \/ BuySaved
    \/ \E w \in SockIds, c \in 1..2, res \in {"lost"} :
           sockets[w].user \in Followers /\ ContractFrame(w, c, res)
    \/ ContractFound
    \/ \E w \in SockIds : ProposalFrame(w)
    \/ \E f \in Followers, body \in FollowBodies :
           Quiet /\ FollowLeader(f, "u1", body, MaxFollows)
    \/ Quiet /\ UpdateSettings("f2", FALSE)
    \/ ReplicateFound
    \/ ReplicateLeaderFound
    \/ ReplicateRejected(MaxCopyFailed)
    \/ CopyFollowerFound
    \/ CopyCreated
    \/ CopyRejected(MaxCopyFailed)
    \/ CopyListenerFound

SpecCopy == Init /\ [][NextCopy]_vars

\* Several bots of one user on one symbol: the session and the bots are set up
\* before the venue's first tick.
AllStarted == DOMAIN activeBots = Bots /\ \A t \in tasks : t.pc # "findBot"

NextTicks ==
    \/ \E u \in Users, tok \in Tokens : CallConnect(u, tok, 1)
    \/ \E w \in SockIds : SocketOpen(w)
    \/ \E w \in SockIds : Deliver(w, {"authorize"})
    \/ \E b \in Bots : ~Has(activeBots, b) /\ CallStartBot(b)
    \/ StartBotFound
    \/ \E w \in SockIds, sigs \in [Bots -> Signals] : AllStarted /\ TickFrame(w, sigs)
    \/ PlaceTradeCreated
    \/ \E sigs \in [Bots -> Signals] : PlaceTradeSaved(sigs)
    \/ \E w \in SockIds : ProposalFrame(w)

SpecTicks == Init /\ [][NextTicks]_vars

\* Giving up: the leader and a follower log in, the follower follows and the
\* leader's bot is started before the venue's first tick; once the bot has
\* its indicators, time passes, sessions that receive no ping go stale and the
\* liveness check counts them out before a reconnect timer fires; the venue
\* keeps sending on transports that are still open, pings only to the leader.
GiveUpLogins == <<"u1", "f1">>

Warm == \E sym \in Symbols : tickData[sym] >= MinIndicatorTicks - 1

NextGiveUp ==
    \/ \E i \in 1..Len(GiveUpLogins), tok \in Tokens :
           /\ Quiet
           /\ ~Has(connections, GiveUpLogins[i])
           /\ \A j \in 1..(i - 1) : isConnected(Manager, GiveUpLogins[j])
           /\ CallConnect(GiveUpLogins[i], tok, Len(GiveUpLogins))
    \/ \E w \in SockIds : Quiet /\ SocketOpen(w)
    \/ \E w \in SockIds : Quiet /\ Deliver(w, {"authorize"})
    \/ \E body \in FollowBodies : Quiet /\ FollowLeader("f1", "u1", body, 1)
    \/ \E b \in OneBot :
           /\ starts = 0 /\ follows = 1
           /\ \A i \in 1..Len(GiveUpLogins) : isConnected(Manager, GiveUpLogins[i])
           /\ CallStartBot(b)
    \/ StartBotFound
    \/ \E w \in SockIds, sigs \in OneBotSignals :
           trades = <<>> /\ CreatesPending(Executor) = 0 /\ TickFrame(w, sigs)
    \/ PlaceTradeCreated
    \/ \E sigs \in OneBotSignals : PlaceTradeSaved(sigs)
    \/ \E w \in SockIds : ProposalFrame(w)
    \/ \E w \in SockIds :
           sockets[w].propReq # {} /\ Awaited(sockets[w].user) /\ BuyFrame(w, 1)
    \/ BuySaved
    \/ ReplicateFound
    \/ ReplicateLeaderFound
    \/ CopyFollowerFound
    \/ CopyCreated
    \/ \E w \in SockIds : Warm /\ sockets[w].user \in Users /\ Deliver(w, {"ping"})
    \/ Warm /\ Clock
    \/ Warm /\ HealthCheck(maxReconnectAttempts)

SpecGiveUp == Init /\ [][NextGiveUp]_vars

\* Following and unfollowing while the leader's bot trades: the leader and one
\* follower have sessions; followers follow, unfollow and follow again at any
\* time, also while a confirmation of the leader is being replicated.
FollowLogins == <<"u1", "f1">>

NextFollow ==
    \/ \E i \in 1..Len(FollowLogins), tok \in Tokens :
           /\ Quiet
           /\ ~Has(connections, FollowLogins[i])
           /\ \A j \in 1..(i - 1) : isConnected(Manager, FollowLogins[j])
           /\ CallConnect(FollowLogins[i], tok, Len(FollowLogins))
    \/ \E w \in SockIds : Quiet /\ SocketOpen(w)
    \/ \E w \in SockIds : Quiet /\ Deliver(w, {"authorize"})
    \/ \E b \in OneBot :
           /\ starts = 0
           /\ \A i \in 1..Len(FollowLogins) : isConnected(Manager, FollowLogins[i])
           /\ CallStartBot(b)
    \/ StartBotFound
    \/ \E w \in SockIds, sigs \in OneBotSignals :
           trades = <<>> /\ CreatesPending(Executor) = 0 /\ TickFrame(w, sigs)
    \/ PlaceTradeCreated
    \/ \E sigs \in OneBotSignals : PlaceTradeSaved(sigs)
    \/ \E w \in SockIds :
           sockets[w].propReq # {} /\ Awaited(sockets[w].user) /\ BuyFrame(w, 1)
    \/ BuySaved
    \/ \E f \in {"f1", "f2"}, body \in FollowBodies :
           (Quiet \/ Warm) /\ FollowLeader(f, "u1", body, MaxFollows)
    \/ \E f \in {"f1", "f2"} : (Quiet \/ Warm) /\ UnfollowLeader(f, "u1")
    \/ UnfollowSaved
    \/ (Quiet \/ Warm) /\ CallResetDailyLoss
    \/ ReplicateFound
    \/ ReplicateLeaderFound
    \/ CopyFollowerFound
    \/ CopyCreated

SpecFollow == Init /\ [][NextFollow]_vars

\* The stake of a copy trade: the follower's document and the leader's trade
\* are what the collections hold when the service starts; the service computes
\* the stake of a follower that passed the checks before it (108) and, when the
\* balance covers it (111), creates the record.
StakeBalances == {0, 50, 1000}
StakeAmounts == {0, 10, 25}
StakePercents == {0, 5, 7}
LeaderStakes == {1, 10, 30}

StakeDocs ==
    {[enabled |-> TRUE, following |-> {"u1"}, balance |-> b, investmentPerTrade |-> i,
      riskPercentage |-> r, maxDailyLoss |-> 100] :
        b \in StakeBalances, i \in StakeAmounts, r \in StakePercents}

InitStake ==
    /\ InitManager
    /\ InitTicks
    /\ activeBots = EmptyMap
    /\ botOrder = <<>>
    /\ tickData = [sym \in Symbols |-> 0]
    /\ performance = [b \in Bots |-> NoPerformance]
    /\ \E st \in LeaderStakes :
          trades = <<[botId |-> "b1", gen |-> 1, tick |-> MinIndicatorTicks, stake |-> st,
                      status |-> "open", contractId |-> 1, profitLoss |-> 0,
                      settledBy |-> 0]>>
    /\ tasks = {}
    /\ starts = 0
    /\ buys = 1
    /\ followers = EmptyMap
    /\ dailyLoss = EmptyMap
    /\ \E d \in StakeDocs :
          userDocs = [f \in Followers |-> IF f = "f1" THEN d ELSE NewUser(f)]
    /\ copyTrades = <<>>
    /\ copyTasks = {}
    /\ listeners = {}
    /\ thrown = FALSE
    /\ follows = 0
    /\ copyFailed = 0
    /\ copyLoss = [f \in Followers |-> 0]

StakeComputed(f, t) ==
    /\ ~hung
    /\ copyTasks = {}
    /\ copyTrades = <<>>
    /\ LET stake == calculateFollowerStake(userDocs[f], trades[t].stake)
       IN /\ ~(userDocs[f].balance * 100 < stake)
          /\ copyTasks' = {CTask("createCopy", BotConfig[trades[t].botId].userId,
                                 trades[t].contractId, t, 1, f, stake, "")}
    /\ UNCHANGED <<smVars, botVars, followers, dailyLoss, userDocs, copyTrades, listeners,
                   thrown, follows, copyFailed, copyLoss>>

NextStake ==
    \/ \E f \in {"f1"}, t \in 1..Len(trades) : StakeComputed(f, t)
    \/ CopyCreated

SpecStake == InitStake /\ [][NextStake]_vars

\* ================================================================== claims
JustAuthenticated(u) ==
    \E i \in 1..Len(events) : events[i] = [type |-> "authenticated", userId |-> u]

Count(seq, x) == Cardinality({i \in 1..Len(seq) : seq[i] = x})

InOrder(ids, seq) ==
    \A i, j \in 1..Len(ids) : i < j =>
        \E a, b \in 1..Len(seq) : a < b /\ seq[a] = ids[i] /\ seq[b] = ids[j]

LiveSockets(u) ==
    {w \in SockIds : sockets[w].user = u /\ sockets[w].state \in {"CONNECTING", "OPEN"}}

\* C1: a bot context creates at most one trade for a tick, and while a trade
\* of a context is unsettled (pending or open) the context has no other trade.
Unsettled(b, gen) ==
    {t \in 1..Len(trades) : trades[t].botId = b /\ trades[t].gen = gen
                            /\ trades[t].status \in {"pending", "open"}}

C1_OneTradeAtATime ==
    /\ \A s, t \in 1..Len(trades) :
          (trades[s].botId = trades[t].botId /\ trades[s].gen = trades[t].gen
           /\ trades[s].tick = trades[t].tick) => s = t
    /\ \A b \in Bots, gen \in 1..MaxStarts : Cardinality(Unsettled(b, gen)) <= 1

\* C11: the callback that handles the venue's answer to a proposal request
\* writes or queues an order (buy) request for the user.
Requests(u, type) ==
    {i \in 1..Len(out[u]) : out[u][i].type = type}
    \cup (IF Has(connections, u)
          THEN {i \in 1..Len(connections[u].messageQueue) :
                    connections[u].messageQueue[i].type = type}
          ELSE {})

ProposalAnswered(u) ==
    via # 0 /\ \E i \in 1..Len(events) : events[i] = [type |-> "proposal", userId |-> u]

C11_ProposalIsFollowedByOrder ==
    \A u \in Users : ProposalAnswered(u) => Requests(u, "buy") # {}

\* C12: whenever a context decides to create a trade (placeTrade calls create),
\* its daily loss is below its maxDailyLoss and its consecutive losses are
\* below its maxConsecutiveLosses, whatever the ceilings are, 0 included.
C12_RiskGate ==
    [][\A t \in tasks' \ tasks :
          t.pc = "create" =>
              /\ activeBots'[t.bot].dailyLoss < BotConfig[t.bot].maxDailyLoss
              /\ activeBots'[t.bot].consecutiveLosses < BotConfig[t.bot].maxConsecutiveLosses]_vars

\* C13: the daily-loss accumulator of a bot context is the sum of the absolute
\* profit/loss of the context's trades that settled as lost, at every state in
\* which no settlement of one of its trades is under way.
RECURSIVE LossOf(_, _, _)
LossOf(b, gen, n) ==
    IF n = 0 THEN 0
    ELSE LossOf(b, gen, n - 1)
         + (IF trades[n].botId = b /\ trades[n].gen = gen /\ trades[n].status = "lost"
            THEN Abs(trades[n].profitLoss) ELSE 0)

Settling(b) == \E t \in tasks : t.pc = "settle" /\ t.bot = b

C13_DailyLossIsSumOfLosses ==
    \A b \in DOMAIN activeBots :
        ~Settling(b) => activeBots[b].dailyLoss = LossOf(b, activeBots[b].gen, Len(trades))

\* C2: once a session that was re-established by a reconnect timer after an
\* unexpected close has authenticated, its subscription set is the set that
\* was active at the close, and a ticks request was written for each symbol
\* of that set.
C2_ResubscribedAfterReconnect ==
    \A u \in DOMAIN subsAtClose :
        (Has(connections, u) /\ autoReconnects[u] > 0 /\ JustAuthenticated(u) /\ ~hung) =>
            /\ connections[u].subscriptions = subsAtClose[u]
            /\ \A sym \in subsAtClose[u] : \E i \in 1..Len(out[u]) :
                   out[u][i].type = "ticks" /\ out[u][i].arg = sym

\* C3: once a session that replaced one with queued caller messages has
\* authenticated, each of those messages has been written to the transport
\* exactly once, in the order of the send calls.
C3_QueueSurvivesReconnect ==
    \A u \in DOMAIN carry :
        (Has(connections, u) /\ JustAuthenticated(u) /\ ~hung) =>
            /\ \A i \in 1..Len(carry[u]) : Count(delivered, carry[u][i]) = 1
            /\ InOrder(carry[u], delivered)

\* C4: no user ever has two transports that are connecting or open.
C4_OneLiveTransport == \A u \in Users : Cardinality(LiveSockets(u)) <= 1

\* C5: the give-up step removes the session and is the only give-up event of
\* that session, and from then on, until a caller connects again, no reconnect
\* timer is set and no timer reconnects.
C5_GiveUpIsFinal ==
    [][\A u \in Users :
         /\ gaveUp'[u] > gaveUp[u] =>
               ~Has(connections', u) /\ ~Has(reconnectAttempts', u) /\ gaveUp'[u] = 1
         /\ (gaveUp[u] > 0 /\ gaveUp'[u] > 0) =>
               timers'[u] <= timers[u] /\ autoReconnects'[u] = autoReconnects[u]]_vars

\* C6: when no transport ever authenticates, at most maxReconnectAttempts
\* automatic reconnects are made for one session.
C6_ReconnectsBounded == \A u \in Users : autoReconnects[u] <= maxReconnectAttempts

\* C7: a caller message sent while the session is unauthenticated is queued
\* and not written; and the callback that handles an authorize response for
\* the session returns, having written the caller messages that were queued in
\* queue order, each once, and having left none of them queued.
C7_QueueFlushedInOrder ==
    [][\A u \in Users :
         /\ (nextId' = nextId + 1 /\ Has(connections, u) /\ ~connections[u].isAuthenticated) =>
               /\ TrackedIds(connections'[u].messageQueue) =
                      Append(TrackedIds(connections[u].messageQueue), nextId')
               /\ delivered' = delivered
         /\ (Has(connections, u) /\ via' # 0 /\ JustAuthenticated(u)') =>
               /\ ~hung'
               /\ delivered' = delivered \o TrackedIds(connections[u].messageQueue)
               /\ TrackedIds(connections'[u].messageQueue) = <<>>
               /\ \A i \in 1..Len(delivered') : Count(delivered', delivered'[i]) = 1]_vars

\* C8: a caller message queued in an authenticated session is not dropped when
\* a reconnect timer re-establishes the session, and none stays queued once the
\* session is authenticated and its transport is writable.
C8_FlushedWhenWritable ==
    [][\A u \in Users :
         /\ (Has(connections, u) /\ connections[u].isAuthenticated
             /\ autoReconnects'[u] = autoReconnects[u] + 1) =>
               \A i \in 1..Len(TrackedIds(connections[u].messageQueue)) :
                   LET id == TrackedIds(connections[u].messageQueue)[i] IN
                       \/ Count(TrackedIds(connections'[u].messageQueue), id) = 1
                       \/ Count(delivered', id) = 1
         /\ (Has(connections', u) /\ connections'[u].isAuthenticated /\ ~hung'
             /\ sockets'[connections'[u].ws].state = "OPEN") =>
               TrackedIds(connections'[u].messageQueue) = <<>>]_vars

\* C9: once a disconnected user's transports have all closed, the user has no
\* session entry and no reconnect-attempt entry.
C9_DisconnectClearsReconnectState ==
    \A u \in Users :
        (~Has(connections, u) /\ gaveUp[u] = 0 /\
         \A w \in SockIds : sockets[w].user = u => sockets[w].state = "CLOSED")
            => ~Has(reconnectAttempts, u)

\* C10: the callback that handled an inbound frame emitted at most one event.
C10_AtMostOneEventPerFrame == via # 0 => Len(events) <= 1

\* A settlement listener of follower f is still looking its copy trade up.
CopyListening(f) == \E t \in copyTasks : t.pc = "findCopy" /\ t.follower = f

\* C14: once the settlement listeners of a follower have handled what the
\* venue reported, the follower's daily-loss accumulator equals the sum of the
\* absolute losses of the follower's copy trades that were reported as lost
\* since the last resetDailyLoss.
C14_FollowerDailyLossIsSumOfLosses ==
    \A f \in Followers : ~CopyListening(f) => DailyLossOf(Service, f) = copyLoss[f]

\* Follower f passes what the claim asks of a follower of leader l.
Eligible(f, l, originalStake) ==
    /\ userDocs[f].enabled
    /\ l \in userDocs[f].following
    /\ DailyLossOf(Service, f) < userDocs[f].maxDailyLoss
    /\ Has(connections, f) /\ connections[f].isAuthenticated
    /\ calculateFollowerStake(userDocs[f], originalStake) <= userDocs[f].balance * 100

\* The trades of leader l that carry contract c.
Confirmed(l, c) ==
    {t \in 1..Len(trades) : trades[t].contractId = c /\ BotConfig[trades[t].botId].userId = l}

\* The service is still replicating the confirmation of contract c.
Replicating(c) ==
    \E t \in copyTasks : t.contract = c /\ t.pc # "findCopy"

HasCopy(f, l, c) ==
    \E i \in 1..Len(copyTrades) :
        /\ copyTrades[i].userId = f /\ copyTrades[i].leader = l
        /\ copyTrades[i].orig \in Confirmed(l, c)

\* C15: once the confirmation of a leader's contract has been replicated
\* (no persistence call having failed), a registered follower has a copy-trade
\* record for it exactly if the follower is enabled, follows the leader, is
\* below the daily-loss ceiling, has an authenticated session and a balance
\* that covers the stake; and when the venue answers the price request made
\* for a follower's copy trade, an order is requested on the follower's session.
C15_CopiedIffEligible ==
    /\ \A l \in Users, c \in 1..buys :
         (Confirmed(l, c) # {} /\ ~Replicating(c) /\ copyFailed = 0) =>
             \A i \in LiveFollowers(Service, l) :
                 LET f == followers[l][i] IN
                     HasCopy(f, l, c) <=>
                         Eligible(f, l, trades[FirstOf(Confirmed(l, c))].stake)
    /\ \A f \in Followers :
         (ProposalAnswered(f) /\ \E i \in 1..Len(copyTrades) : copyTrades[i].userId = f)
             => Requests(f, "buy") # {}

\* The stake the claim states, in hundredths: the fixed amount if one is
\* configured, else the configured percentage of the balance, else the
\* smaller of the leader's stake and 2% of the balance.
StatedStake(doc, leaderStake) ==
    IF doc.investmentPerTrade > 0 THEN 100 * doc.investmentPerTrade
    ELSE IF doc.riskPercentage > 0 THEN (100 * doc.balance * doc.riskPercentage) \div 100
    ELSE IF 100 * leaderStake <= 2 * doc.balance THEN 100 * leaderStake
    ELSE 2 * doc.balance

\* C16: the stake with which a copy trade is created is the stated function of
\* the follower's settings and balance and of the leader's stake, so equal
\* inputs give equal stakes.
C16_StakeIsStatedFunction ==
    /\ \A t \in copyTasks :
         t.pc = "createCopy" =>
             t.stake = StatedStake(userDocs[t.follower], trades[t.orig].stake)
    /\ \A i \in 1..Len(copyTrades) :
         copyTrades[i].stake =
             StatedStake(userDocs[copyTrades[i].userId], trades[copyTrades[i].orig].stake)

\* A follower with balance 1000, riskPercentage 5 and no fixed amount is given
\* a stake of 50.
C16_Witness ==
    \E i \in 1..Len(copyTrades) :
        LET doc == userDocs[copyTrades[i].userId] IN
            /\ doc.balance = 1000 /\ doc.riskPercentage = 5 /\ doc.investmentPerTrade = 0
            /\ copyTrades[i].stake = 50 * 100

\* The entries of the follower set that the iteration of task t has yet to visit.
Remaining(t) == {i \in LiveFollowers(Service, t.leader) : i > t.pos}

\* C17: when the lookup, the record creation or the order placement of one
\* follower fails, the iteration goes on with the next follower of the set and
\* no exception leaves the handling of the leader's buy confirmation.
C17_FollowerFailureIsContained ==
    [][copyFailed' > copyFailed =>
         /\ thrown' = FALSE
         /\ \A t \in copyTasks \ copyTasks' :
              (t.pc \in {"findFollower", "createCopy"} /\ Remaining(t) # {}) =>
                  \E n \in copyTasks' \ copyTasks :
                      /\ n.pc = "findFollower"
                      /\ n.leader = t.leader /\ n.contract = t.contract
                      /\ n.pos = FirstOf(Remaining(t))]_vars

\* The copy to the first follower of the set failed and the last follower of
\* the set got its copy trade.
C17_Witness ==
    /\ copyFailed = 1
    /\ thrown = FALSE
    /\ \E i \in 1..Len(copyTrades) :
         LET l == copyTrades[i].leader IN
             /\ Has(followers, l)
             /\ Len(followers[l]) >= 2
             /\ followers[l][Len(followers[l])] = copyTrades[i].userId

\* C18: the tick buffer of every bot context holds the ticks of its symbol in
\* the order in which the venue's frames arrived, also when several bots of
\* the user run on the symbol and an earlier tick's handling awaits a
\* persistence call.
C18_TickBuffersInDeliveryOrder ==
    \A b \in DOMAIN activeBots : activeBots[b].ordered

\* The bots that were paused while their trade was being created, pending or open.
PausedInTrade ==
    {b \in DOMAIN activeBots : ~activeBots[b].isRunning /\ activeBots[b].currentTrade # 0}

\* The trade of a paused bot is settled in its turn: once it is won or lost
\* the slot is about to be cleared.
PausedTradeSettles ==
    \A b \in PausedInTrade :
        Finished(trades[activeBots[b].currentTrade].status) => Settling(b)

\* C19: the trade of a bot that is paused while the trade is being created,
\* pending or open is carried through: once the venue has answered its
\* proposal request an order request is written or queued for it, and once it
\* is won or lost the context's slot and counters are updated.
C19_PausedTradeIsCarriedThrough ==
    /\ PausedTradeSettles
    /\ \A b \in PausedInTrade :
         (/\ trades[activeBots[b].currentTrade].status = "pending"
          /\ ProposalAnswered(activeBots[b].userId)) =>
             Requests(activeBots[b].userId, "buy") # {}

\* From the step that gives a user up until a caller connects the user
\* again, no bot context of the user starts the creation of a trade record,
\* the replicator starts none for the user as a follower, and no proposal or
\* buy request is written to a transport of the user.
AttemptsSuppressedAfterGiveUp ==
    [][\A u \in Accounts :
         (gaveUp[u] > 0 /\ gaveUp'[u] > 0) =>
             /\ \A t \in tasks' \ tasks :
                  t.pc = "create" => BotConfig[t.bot].userId # u
             /\ \A t \in copyTasks' \ copyTasks :
                  t.pc = "createCopy" => t.follower # u
             /\ \A i \in 1..Len(out'[u]) : out'[u][i].type \notin {"proposal", "buy"}]_vars

\* C20: from the step that gives a user up until a caller connects the user
\* again, no trade record of the user comes into being, neither a trade of
\* one of the user's bots nor a copy trade of the user, and no proposal or buy
\* request is written to a transport of the user.
C20_NoTradingAfterGiveUp ==
    [][\A u \in Accounts :
         (gaveUp[u] > 0 /\ gaveUp'[u] > 0) =>
             /\ \A t \in (Len(trades) + 1)..Len(trades') :
                  BotConfig[trades'[t].botId].userId # u
             /\ \A i \in (Len(copyTrades) + 1)..Len(copyTrades') :
                  copyTrades'[i].userId # u
             /\ \A i \in 1..Len(out'[u]) : out'[u][i].type \notin {"proposal", "buy"}]_vars

\* C21: the liveness check takes a session for dead exactly when no frame of
\* the venue has arrived on it for longer than the timeout; so a session on
\* whose transport a frame has just arrived is not one the check would route
\* through the reconnect path.
C21_FramesKeepSessionAlive ==
    \A u \in DOMAIN connections :
        (via # 0 /\ connections[u].ws = via) => ~Stale(connections[u])

\* The callback that leaves the state emits event t for user u.
Emits(t, u) == \E i \in 1..Len(events') : events'[i] = [type |-> t, userId |-> u]

\* The venue answers the authorize request on transport w, the transport of
\* u's session, and the session is not authenticated by the answer.
AuthorizeRefused(w, u) ==
    /\ Has(connections, u) /\ connections[u].ws = w
    /\ Has(connections', u) /\ connections'[u].ws = w
    /\ sockets[w].state = "OPEN" /\ sockets'[w].state = "OPEN"
    /\ sockets'[w].authReq = sockets[w].authReq - 1
    /\ ~connections'[u].isAuthenticated

\* C22: an error frame of the venue is surfaced as api_error and nothing is
\* retried because of it: the session keeps its authentication flag and its
\* transport, no authorize message is written and no reconnect is scheduled.
C22_ErrorFrameIsSurfacedOnly ==
    [][\A u \in Users :
         /\ \A w \in SockIds : AuthorizeRefused(w, u) => Emits("api_error", u)
         /\ (Emits("api_error", u) /\ Has(connections, u)) =>
               /\ Has(connections', u)
               /\ connections'[u].isAuthenticated = connections[u].isAuthenticated
               /\ connections'[u].ws = connections[u].ws
               /\ \A i \in 1..Len(out'[u]) : out'[u][i].type # "authorize"
               /\ timers' = timers
               /\ reconnectAttempts' = reconnectAttempts
               /\ \A w \in SockIds : sockets'[w].state = sockets[w].state]_vars

\* The venue has answered the authorize request of a session with an error:
\* the session is open and unauthenticated and no authorize request is pending.
C22_Witness ==
    \E u \in Users :
        /\ via # 0
        /\ Has(connections, u) /\ connections[u].ws = via
        /\ \E i \in 1..Len(events) : events[i] = [type |-> "api_error", userId |-> u]
        /\ sockets[via].state = "OPEN" /\ sockets[via].authReq = 0
        /\ ~connections[u].isAuthenticated

\* C23: no fault of a transport leaves an operation or a socket callback of
\* the session manager as an exception.
C23_FaultsAreContained == ~raised

\* f is a member of leader l's follower set fs[l].
IsFollower(fs, l, f) == Has(fs, l) /\ \E i \in 1..Len(fs[l]) : fs[l][i] = f

\* C24: when replication has looked up a follower who has copy trading
\* disabled or no longer follows the leader, it starts no copy trade for the
\* follower and the follower is no longer in the leader's follower set; a
\* follower who is enabled and follows the leader stays in the set.
C24_IneligibleFollowerIsRemoved ==
    [][\A t \in copyTasks \ copyTasks' :
         (t.pc = "findFollower" /\ copyFailed' = copyFailed) =>
             IF ~userDocs[t.follower].enabled \/ t.leader \notin userDocs[t.follower].following
             THEN /\ ~\E n \in copyTasks' : n.pc = "createCopy" /\ n.follower = t.follower
                  /\ ~IsFollower(followers', t.leader, t.follower)
             ELSE IsFollower(followers', t.leader, t.follower)]_vars

\* The copy trades for which the venue has not reported a win or a loss.
UnsettledCopies == {i \in 1..Len(copyTrades) : ~Finished(copyTrades[i].outcome)}

\* C25: when no settlement listener is at work, at most as many copy-trade
\* listeners are attached as there are unsettled copy trades; so none is
\* attached once every copy trade has settled.
C25_ListenersDetach ==
    (~\E t \in copyTasks : t.pc = "findCopy") =>
        Cardinality(listeners) <= Cardinality(UnsettledCopies)

\* The members of leader l's follower set fs[l].
Members(fs, l) ==
    IF Has(fs, l) THEN {fs[l][i] : i \in 1..Len(fs[l])} \ {NoUser} ELSE {}

\* Registering, and unregistering, a second time changes nothing.
RegistrationIdempotent ==
    \A f \in Followers, l \in Users :
        /\ registerFollower(registerFollower(Service, f, l), f, l)
               = registerFollower(Service, f, l)
        /\ unregisterFollower(unregisterFollower(Service, f, l), f, l)
               = unregisterFollower(Service, f, l)

\* C26: registerFollower and unregisterFollower are idempotent, and whenever
\* the members of a leader's follower set change, the change is that of one
\* registerFollower or one unregisterFollower.
C26_RegistrationIdempotentAndExclusive ==
    /\ []RegistrationIdempotent
    /\ [][\A l \in Users :
            Members(followers', l) # Members(followers, l) =>
                \E f \in Followers :
                    \/ Members(followers', l)
                           = Members(registerFollower(Service, f, l).followers, l)
                    \/ Members(followers', l)
                           = Members(unregisterFollower(Service, f, l).followers, l)]_vars

\* A follower who unfollowed and followed again before the service was told:
\* registered a second time while a member, and a member once.
C26_Witness ==
    \E t \in copyTasks, l \in Users :
        /\ t.pc = "unfollow" /\ t.leader = l
        /\ l \in userDocs[t.follower].following
        /\ Has(followers, l)
        /\ Cardinality({i \in 1..Len(followers[l]) : followers[l][i] = t.follower}) = 1

\* One bot whose trades are confirmed and settled one after another; the
\* venue confirms no more orders than there are trades.
NextSettle ==
    \/ \E u \in Users, tok \in Tokens : CallConnect(u, tok, 1)
    \/ \E w \in SockIds : SocketOpen(w)
    \/ \E w \in SockIds : Deliver(w, {"authorize"})
    \/ \E b \in OneBot : CallStartBot(b)
    \/ StartBotFound
    \/ \E w \in SockIds, sigs \in OneBotSignals : TickFrame(w, sigs)
    \/ PlaceTradeCreated
    \/ \E sigs \in OneBotSignals : PlaceTradeSaved(sigs)
    \/ \E w \in SockIds : buys < Len(trades) /\ BuyFrame(w, MaxSettled)
    \/ BuySaved
    \/ \E w \in SockIds, c \in 1..MaxSettled, res \in {"open", "won", "lost"} :
           ContractFrame(w, c, res)
    \/ ContractFound
    \/ ContractSettled

SpecSettle == Init /\ [][NextSettle]_vars

\* The botData object of bot b is the same object before and after the step.
SameContext(b) ==
    /\ Has(activeBots, b) /\ Has(activeBots', b)
    /\ activeBots'[b].gen = activeBots[b].gen

\* C27: a step that pauses or resumes a bot changes the running flag of its
\* context and nothing else: not the context's current trade, counters or
\* buffer, not the session's subscriptions, not a trade record; and a context
\* that is paused before and after a step starts no creation of a trade in it.
C27_PauseChangesOnlyTheFlag ==
    [][\A b \in Bots :
         SameContext(b) =>
             /\ activeBots'[b].isRunning # activeBots[b].isRunning =>
                   /\ activeBots' = [activeBots EXCEPT ![b].isRunning = ~@]
                   /\ UNCHANGED <<connections, sockets, out, trades, tasks, botOrder, tickData>>
             /\ (~activeBots[b].isRunning /\ ~activeBots'[b].isRunning) =>
                   ~\E t \in tasks' \ tasks : t.pc = "create" /\ t.bot = b]_vars

\* A paused context that has its indicators and no trade, past which ticks
\* of its symbol have gone.
C27_Witness ==
    \E b \in DOMAIN activeBots :
        /\ ~activeBots[b].isRunning
        /\ activeBots[b].currentTrade = 0
        /\ activeBots[b].tickBuffer >= MinIndicatorTicks
        /\ tickData[BotConfig[b].symbol] > activeBots[b].tickBuffer
        /\ starts = 1

\* The session of user u runs on a transport that has not closed, so every
\* reconnect timer of u still pending was set for an earlier transport.
OnLiveTransport(u) ==
    /\ Has(connections, u)
    /\ sockets[connections[u].ws].state \in {"CONNECTING", "OPEN"}

\* C28: a reconnect timer that fires while the user's session runs on a
\* transport that has not closed leaves that session's transport,
\* authentication flag, subscription set and queue as they were.
C28_StaleTimerLeavesFreshSession ==
    [][\A u \in Users :
         (timers'[u] < timers[u] /\ OnLiveTransport(u)) =>
             /\ Has(connections', u)
             /\ connections'[u] = connections[u]
             /\ sockets'[connections[u].ws] = sockets[connections[u].ws]]_vars

\* The counters of context d2 are those of d after a settlement of the
\* context's current trade with status st and the given profit/loss.
SettledFrom(d, d2, st, pl) ==
    /\ d2.currentTrade = 0
    /\ d2.consecutiveLosses = IF st = "lost" THEN d.consecutiveLosses + 1 ELSE 0
    /\ d2.dailyLoss = IF st = "lost" THEN d.dailyLoss + Abs(pl) ELSE d.dailyLoss

\* C29: when a context's occupied trade slot becomes empty, the slot's trade
\* record holds a final status with the contract's
\* profit/loss, the consecutive-loss counter is 0 after a win and one more
\* after a loss, and the daily-loss accumulator has grown by the magnitude of
\* the loss after a loss and not at all after a win; in every other step of
\* the context the counters are unchanged; a record of a current trade that holds a
\* final status has its slot cleared in the same settlement; and a contract
\* update that reports no settlement changes no record and no context.
C29_SettlementUpdatesContext ==
    /\ [][\A b \in Bots :
            SameContext(b) =>
                LET d  == activeBots[b]
                    d2 == activeBots'[b]
                    t  == d.currentTrade
                IN /\ (t # 0 /\ d2.currentTrade = 0) =>
                         /\ Finished(trades[t].status)
                         /\ trades[t].profitLoss = Profit(trades[t].status)
                         /\ SettledFrom(d, d2, trades[t].status, trades[t].profitLoss)
                   /\ (t = 0 \/ d2.currentTrade # 0) =>
                         /\ d2.consecutiveLosses = d.consecutiveLosses
                         /\ d2.dailyLoss = d.dailyLoss]_vars
    /\ [][\A k \in tasks \ tasks' :
            (k.pc = "findTrade" /\ ~Finished(k.res)) => UNCHANGED <<trades, activeBots>>]_vars
    /\ [](\A b \in DOMAIN activeBots :
            (activeBots[b].currentTrade # 0
             /\ Finished(trades[activeBots[b].currentTrade].status)) =>
                \E k \in tasks : k.pc = "settle" /\ k.ref = activeBots[b].currentTrade)

Statuses == {"pending", "open", "won", "lost"}

\* C30: the status of every trade record is pending, open, won or lost, and
\* in a step it stays what it is or moves from pending to open or from open
\* to won or lost.
C30_StatusMovesForwardOnly ==
    /\ [](\A t \in 1..Len(trades) : trades[t].status \in Statuses)
    /\ [][\A t \in 1..Len(trades) :
            \/ trades'[t].status = trades[t].status
            \/ trades[t].status = "pending" /\ trades'[t].status = "open"
            \/ trades[t].status = "open" /\ trades'[t].status \in {"won", "lost"}]_vars

\* ------------------------------------------ the entries of window and buffer
Last(q) == q[Len(q)]

\* A buffer that refuses the new tick when it is full.
pushBufferKeepsOldest(buf, tick) ==
    IF Len(buf) >= TickBufferCap THEN buf ELSE Append(buf, tick)

\* tickHistory.push, then shift when longer than 1000 (123-132).
pushTick(hist, tick) ==
    LET h == Append(hist, tick) IN IF Len(h) > TickWindowCap THEN Tail(h) ELSE h

\* botData.tickBuffer.push, then shift when longer than 100 (141-144).
pushBuffer(buf, tick) ==
    LET h == Append(buf, tick) IN IF Len(h) > TickBufferCap THEN Tail(h) ELSE h

WindowLengths == TickWindowCap - Slack .. TickWindowCap
BufferLengths == {0, 1} \cup (TickBufferCap - Slack .. TickBufferCap)

\* A context of bot b1 that has taken the last B ticks of the L ticks that
\* arrived for its symbol; the ticks are numbered as they arrive.
InitWindow ==
    /\ InitManager
    /\ InitService
    /\ \E L \in WindowLengths, B \in BufferLengths :
         /\ B <= L
         /\ tickHistory = [sym \in Symbols |-> [i \in 1..L |-> i]]
         /\ bufferOf = [b \in Bots |-> IF b = "b1" THEN [i \in 1..B |-> L - B + i] ELSE <<>>]
         /\ tickData = [sym \in Symbols |-> L]
         /\ performance = [b \in Bots |-> NoPerformance]
         /\ activeBots = Put(EmptyMap, "b1",
                             [userId |-> BotConfig["b1"].userId, isRunning |-> TRUE,
                              currentTrade |-> 0, dailyLoss |-> 0, consecutiveLosses |-> 0,
                              tickBuffer |-> B, ordered |-> TRUE, gen |-> 1])
    /\ botOrder = <<"b1">>
    /\ trades = <<>>
    /\ tasks = {}
    /\ starts = 1
    /\ buys = 0

\* The number of the tick that arrives next for symbol sym.
Arriving(sym) == IF tickHistory[sym] = <<>> THEN 1 ELSE Last(tickHistory[sym]) + 1

\* The contexts that take a tick of symbol sym of user u (136-138).
Takes(b, u, sym) ==
    /\ Has(activeBots, b)
    /\ activeBots[b].userId = u /\ BotConfig[b].symbol = sym /\ activeBots[b].isRunning

\* The listener of 'tick' runs handleTickUpdate (114-153) for a tick on which
\* no strategy gives a signal.
WindowTick(u, sym, maxPushes) ==
    /\ ~hung
    /\ Arriving(sym) <= TickWindowCap + maxPushes
    /\ LeaveBots(handleTickUpdate(Executor, u, sym, [b \in Bots |-> "HOLD"]))
    /\ tickHistory' = [tickHistory EXCEPT ![sym] = pushTick(@, Arriving(sym))]
    /\ bufferOf' = [b \in Bots |-> IF Takes(b, u, sym)
                                   THEN pushBuffer(bufferOf[b], Arriving(sym))
                                   ELSE bufferOf[b]]
    /\ UNCHANGED <<connections, reconnectAttempts, sockets, timers, hung, raised, events,
                   out, via, nextId, delivered, callerConnects, autoReconnects, gaveUp,
                   subsAtClose, carry>>
    /\ UNCHANGED <<starts, buys, copyVars>>

NextWindow ==
    \/ \E u \in Users, sym \in Symbols : WindowTick(u, sym, MaxPushes)
    \/ \E b \in OneBot : CallPauseBot(b)
    \/ \E b \in OneBot : CallResumeBot(b)

SpecWindow == InitWindow /\ [][NextWindow]_vars

\* q2 is q after the arrival of tick: with the tick as newest entry, and
\* without the oldest entry of q, and only that one, if q held cap entries.
Evicted(q, q2, tick, cap) ==
    q2 = IF Len(q) >= cap THEN Append(Tail(q), tick) ELSE Append(q, tick)

\* C31: a context's buffer never holds more than 100 ticks and a symbol's
\* window never more than 1000 (the lengths the engine works with are those
\* of the entries); a tick that arrives enters the window and the buffer of
\* each running context of its user and symbol as the newest entry, and
\* exactly the oldest entry leaves a window or buffer that was full.
C31_WindowsAreBoundedFifo ==
    /\ [](/\ \A sym \in Symbols : /\ Len(tickHistory[sym]) <= TickWindowCap
                                  /\ tickData[sym] = Len(tickHistory[sym])
          /\ \A b \in DOMAIN activeBots : /\ Len(bufferOf[b]) <= TickBufferCap
                                          /\ activeBots[b].tickBuffer = Len(bufferOf[b]))
    /\ [][\A sym \in Symbols :
            tickHistory'[sym] # tickHistory[sym] =>
                /\ Evicted(tickHistory[sym], tickHistory'[sym], Arriving(sym), TickWindowCap)
                /\ \A b \in Bots :
                      IF \E u \in Users : Takes(b, u, sym)
                      THEN Evicted(bufferOf[b], bufferOf'[b], Arriving(sym), TickBufferCap)
                      ELSE bufferOf'[b] = bufferOf[b]]_vars

\* A full window and a full buffer from which ticks that arrived have
\* pushed the oldest entries out.
C31_Witness ==
    \E sym \in Symbols :
        /\ Len(tickHistory[sym]) = TickWindowCap
        /\ tickHistory[sym][1] > Slack
        /\ Len(bufferOf["b1"]) = TickBufferCap
        /\ Last(bufferOf["b1"]) = Last(tickHistory[sym])
        /\ bufferOf["b1"][1] > TickWindowCap - TickBufferCap + 1 + Slack

\* C32: the messages a callback writes to the transport of a user's session
\* are authorize requests unless that transport has delivered the venue's
\* authorize response.
C32_NothingWrittenBeforeAuthorized ==
    \A u \in DOMAIN connections :
        (\E i \in 1..Len(out[u]) : out[u][i].type # "authorize") =>
            sockets[connections[u].ws].authorized

\* One bot whose proposal request the venue may answer with a proposal or
\* with an error.  A callback that waits for a persistence call is resumed;
\* the venue and the callers are free to do nothing.
NextAnswer ==
    \/ \E u \in Users, tok \in Tokens : CallConnect(u, tok, 1)
    \/ \E w \in SockIds : SocketOpen(w)
    \/ \E w \in SockIds : Deliver(w, {"authorize"})
    \/ \E w \in SockIds : sockets[w].propReq # {} /\ Deliver(w, {"error"})
    \/ \E b \in OneBot : CallStartBot(b)
    \/ StartBotFound
    \/ \E w \in SockIds, sigs \in OneBotSignals : TickFrame(w, sigs)
    \/ PlaceTradeCreated
    \/ \E w \in SockIds : ProposalFrame(w)
    \/ \E sigs \in OneBotSignals : PlaceTradeSaved(sigs)
    \/ \E w \in SockIds : buys < Len(trades) /\ BuyFrame(w, MaxBuys)
    \/ BuySaved
    \/ \E w \in SockIds, c \in 1..MaxBuys, res \in {"open", "won", "lost"} :
           ContractFrame(w, c, res)
    \/ ContractFound
    \/ ContractSettled

SpecAnswer ==
    /\ Init /\ [][NextAnswer]_vars
    /\ WF_vars(StartBotFound) /\ WF_vars(PlaceTradeCreated)
    /\ WF_vars(\E sigs \in OneBotSignals : PlaceTradeSaved(sigs))
    /\ WF_vars(BuySaved) /\ WF_vars(ContractFound) /\ WF_vars(ContractSettled)

\* The venue has just answered with an error on the transport on which a
\* proposal for bot b was requested, and b's current trade is still pending.
ProposalRefused(b) ==
    /\ via # 0
    /\ b \in sockets[via].propReq
    /\ Emitted([events |-> events], "api_error", BotConfig[b].userId)
    /\ Has(activeBots, b)
    /\ activeBots[b].currentTrade # 0
    /\ trades[activeBots[b].currentTrade].status = "pending"

\* C33: after the venue has answered a bot's proposal request with an error,
\* the bot's current-trade slot is eventually empty.
C33_RefusedTradeReleasesSlot ==
    \A b \in OneBot :
        ProposalRefused(b) ~> (Has(activeBots, b) => activeBots[b].currentTrade = 0)

\* Several bots of one user on one symbol whose orders the venue confirms,
\* no more orders than there are trades.
NextConfirm ==
    \/ \E u \in Users, tok \in Tokens : CallConnect(u, tok, 1)
    \/ \E w \in SockIds : SocketOpen(w)
    \/ \E w \in SockIds : Deliver(w, {"authorize"})
    \/ \E b \in Bots : ~Has(activeBots, b) /\ CallStartBot(b)
    \/ StartBotFound
    \/ \E w \in SockIds, sigs \in [Bots -> Signals] : AllStarted /\ TickFrame(w, sigs)
    \/ PlaceTradeCreated
    \/ \E sigs \in [Bots -> Signals] : PlaceTradeSaved(sigs)
    \/ \E w \in SockIds : buys < Len(trades) /\ BuyFrame(w, MaxSettled)
    \/ BuySaved

SpecConfirm == Init /\ [][NextConfirm]_vars

\* C34: a buy confirmation that arrives while a trade of the user is pending
\* opens one pending trade and gives it the confirmed contract, and a trade
\* that has a contract keeps it.
C34_ConfirmationGoesToItsTrade ==
    [][/\ \A t \in 1..Len(trades) :
            trades[t].contractId # 0 => trades'[t].contractId = trades[t].contractId
       /\ (buys' = buys + 1 /\ \E t \in 1..Len(trades) : trades[t].status = "pending") =>
            \E t \in 1..Len(trades) :
                /\ trades[t].status = "pending"
                /\ trades'[t].status = "open"
                /\ trades'[t].contractId = buys']_vars

\* One bot that is paused or stopped and started again while the venue is
\* silent about its order.  The controller refuses to start a bot whose
\* document says 'active' (botController 430-435), pauseBot and stopBot
\* write 'paused' and 'stopped' to it (108, 72); ticks arrive while no
\* callback of the executor waits.
NextRestart ==
    \/ \E u \in Users, tok \in Tokens : CallConnect(u, tok, 1)
    \/ \E w \in SockIds : SocketOpen(w)
    \/ \E w \in SockIds : Deliver(w, {"authorize"})
    \/ \E b \in OneBot : (Has(activeBots, b) => ~activeBots[b].isRunning) /\ CallStartBot(b)
    \/ StartBotFound
    \/ \E b \in OneBot : tasks = {} /\ CallPauseBot(b)
    \/ \E b \in OneBot : tasks = {} /\ CallStopBot(b)
    \/ \E w \in SockIds, sigs \in OneBotSignals :
           tasks = {} /\ TickFrameUpTo(w, sigs, MaxRestartTicks)
    \/ PlaceTradeCreated
    \/ \E sigs \in OneBotSignals : PlaceTradeSaved(sigs)

SpecRestart == Init /\ [][NextRestart]_vars

UnsettledOf(b) ==
    {t \in 1..Len(trades) : trades[t].botId = b /\ trades[t].status \in {"pending", "open"}}

\* C35: at most one trade record of a bot is pending or open.
C35_OneUnsettledTradePerBot == \A b \in Bots : Cardinality(UnsettledOf(b)) <= 1

RECURSIVE SumOver(_, _, _)
SumOver(b, st, n) ==
    IF n = 0 THEN 0
    ELSE SumOver(b, st, n - 1)
         + (IF trades[n].botId = b /\ trades[n].status = st
            THEN Abs(trades[n].profitLoss) ELSE 0)

SettledOf(b) == {t \in 1..Len(trades) : trades[t].botId = b /\ Finished(trades[t].status)}

\* C36: while no contract update is being handled, the aggregates of a bot
\* count each of its settled trades once: totalTrades is the number of its
\* trade records that are won or lost, totalProfit the sum of the profits of
\* the won ones and totalLoss the sum of the losses of the lost ones.
C36_SettledTradeCountedOnce ==
    \A b \in Bots :
        (~\E k \in tasks : k.pc \in {"findTrade", "settle"}) =>
            /\ performance[b].totalTrades = Cardinality(SettledOf(b))
            /\ performance[b].totalProfit = SumOver(b, "won", Len(trades))
            /\ performance[b].totalLoss = SumOver(b, "lost", Len(trades))

\* Several bots of one user on one symbol, any of which may be stopped once
\* all are started.
NextStop ==
    \/ \E u \in Users, tok \in Tokens : CallConnect(u, tok, 1)
    \/ \E w \in SockIds : SocketOpen(w)
    \/ \E w \in SockIds : Deliver(w, {"authorize"})
    \/ \E b \in Bots : ~Has(activeBots, b) /\ CallStartBot(b)
    \/ StartBotFound
    \/ \E b \in Bots : AllStarted /\ CallStopBot(b)
    \/ \E w \in SockIds, sigs \in [Bots -> Signals] : TickFrame(w, sigs)
    \/ PlaceTradeCreated
    \/ \E sigs \in [Bots -> Signals] : PlaceTradeSaved(sigs)

SpecStop == Init /\ [][NextStop]_vars

\* Context b2 remains when b is stopped and has b's user and symbol.
StillNeeds(b, b2) ==
    /\ b2 # b
    /\ Has(activeBots, b2) /\ Has(activeBots', b2)
    /\ activeBots[b2].userId = activeBots[b].userId
    /\ BotConfig[b2].symbol = BotConfig[b].symbol

\* C37: when a bot is stopped while another context of its user needs the
\* same symbol, the session stays subscribed to the symbol and no request to
\* end the subscription is written.
C37_StopKeepsSharedSubscription ==
    [][\A b \in Bots :
         (/\ Has(activeBots, b) /\ ~Has(activeBots', b)
          /\ Has(connections, activeBots[b].userId)
          /\ BotConfig[b].symbol \in connections[activeBots[b].userId].subscriptions
          /\ \E b2 \in Bots : StillNeeds(b, b2)) =>
             LET u == activeBots[b].userId IN
             /\ Has(connections', u)
             /\ BotConfig[b].symbol \in connections'[u].subscriptions
             /\ ~\E i \in 1..Len(out'[u]) : out'[u][i].type = "forget"]_vars

\* Several bots of one user on one symbol; the create of a trade may reject.
NextReject ==
    \/ \E u \in Users, tok \in Tokens : CallConnect(u, tok, 1)
    \/ \E w \in SockIds : SocketOpen(w)
    \/ \E w \in SockIds : Deliver(w, {"authorize"})
    \/ \E b \in Bots : ~Has(activeBots, b) /\ CallStartBot(b)
    \/ StartBotFound
    \/ \E w \in SockIds, sigs \in [Bots -> Signals] : AllStarted /\ TickFrame(w, sigs)
    \/ PlaceTradeCreated
    \/ PlaceTradeRejected
    \/ \E sigs \in [Bots -> Signals] : PlaceTradeSaved(sigs)

SpecReject == Init /\ [][NextReject]_vars

\* The contexts after position pos in the iteration that take the ticks of
\* user u and symbol sym.
Remaining38(pos, u, sym) ==
    {botOrder[i] : i \in {j \in (pos + 1)..Len(botOrder) :
                             /\ botOrder[j] # NoBot
                             /\ Takes(botOrder[j], u, sym)}}

\* C38: when the create of a trade for a context rejects, the context's
\* trade slot stays empty and every context that comes after it in the
\* iteration for the same tick has the tick added to its buffer.
C38_RejectedCreateIsContained ==
    [][\A k \in tasks \ tasks' :
         (k.pc = "create" /\ Len(trades') = Len(trades)) =>
             /\ Has(activeBots, k.bot) => activeBots'[k.bot].currentTrade = 0
             /\ \A b \in Remaining38(k.pos, BotConfig[k.bot].userId, BotConfig[k.bot].symbol) :
                   activeBots'[b].tickBuffer = Min(activeBots[b].tickBuffer + 1, TickBufferCap)]_vars

\* A follower whose copies lose, and who unfollows and follows again.
NextRefollow ==
    \/ \E i \in 1..Len(FollowLogins), tok \in Tokens :
           /\ Quiet
           /\ ~Has(connections, FollowLogins[i])
           /\ \A j \in 1..(i - 1) : isConnected(Manager, FollowLogins[j])
           /\ CallConnect(FollowLogins[i], tok, Len(FollowLogins))
    \/ \E w \in SockIds : Quiet /\ SocketOpen(w)
    \/ \E w \in SockIds : Quiet /\ Deliver(w, {"authorize"})
    \/ \E b \in OneBot : starts = 0 /\ CallStartBot(b)
    \/ StartBotFound
    \/ \E w \in SockIds, sigs \in OneBotSignals :
           trades = <<>> /\ CreatesPending(Executor) = 0 /\ TickFrame(w, sigs)
    \/ PlaceTradeCreated
    \/ \E sigs \in OneBotSignals : PlaceTradeSaved(sigs)
    \/ \E w \in SockIds :
           sockets[w].propReq # {} /\ Awaited(sockets[w].user) /\ BuyFrame(w, 2)
    \/ BuySaved
    \/ \E w \in SockIds, c \in 1..2, res \in {"lost"} :
           sockets[w].user \in Followers /\ ContractFrame(w, c, res)
    \/ \E w \in SockIds : ProposalFrame(w)
    \/ \E body \in FollowBodies :
           (Quiet \/ Warm) /\ FollowLeader("f1", "u1", body, MaxFollows)
    \/ copyTasks = {} /\ UnfollowLeader("f1", "u1")
    \/ UnfollowSaved
    \/ CallResetDailyLoss
    \/ ReplicateFound
    \/ ReplicateLeaderFound
    \/ CopyFollowerFound
    \/ CopyCreated
    \/ CopyListenerFound

SpecRefollow == Init /\ [][NextRefollow]_vars

\* C39: a follow request changes the follower set only: the daily-loss map of
\* the service, and with it the accumulator of every follower, is after the
\* request what it was before.
C39_RegisteringKeepsDailyLoss ==
    [][follows' # follows => dailyLoss' = dailyLoss]_vars

\* C40: the flush loop of processMessageQueue always comes to an end: whatever
\* the queue holds and whatever the state of the session's transport when the
\* authorize response is handled, the callback that runs the loop returns.
C40_FlushLoopTerminates == ~hung

====
